---- MODULE Spec2Model ----
(***************************************************************************)
(* Model of the calendar engine of zero-calendar: src/lib/calendar.ts      *)
(* (getEvents, createEvent, updateEvent, deleteEvent, recurrence           *)
(* expansion) and src/lib/google-calendar.ts (token refresh, provider      *)
(* calls, mirror write-through), for one user.                             *)
(*                                                                         *)
(* Conventions.  An instant is an integer number of ticks, TicksPerDay     *)
(* ticks to a calendar day; an ISO string is modelled by the instant it    *)
(* denotes.  An id is the sequence of its '_'-separated segments, so that  *)
(* "event_u1_20240102" is <<"event", "u1", "20240102">> and split("_")     *)
(* is the identity on that representation.  An optional field is           *)
(* "undefined" when it holds <<>> (objects, arrays), "none" (strings),     *)
(* NoTime (instants) or 0 (numbers that the code tests for truthiness).    *)
(* The server's own zone is UTC.                                           *)
(***************************************************************************)
EXTENDS Integers, Sequences, FiniteSets, TLC

VARIABLES ledger, mirror, eventMeta, user, google, now, last, steps, procs

vars == <<ledger, mirror, eventMeta, user, google, now, last, steps, procs>>

(***************************************************************************)
(* Bounds of the model.                                                    *)
(***************************************************************************)
MaxDay == 2
MaxSteps == 3

TicksPerDay == 2
Skew == 300
NoTime == 0 - 1

\* new Date(s) for a string s that is not a date: Invalid Date
InvalidDate == 0 - 2

MaxTick == MaxDay * TicksPerDay - 1
Ticks == 0 .. MaxTick

Zones == {"UTC", "Z1"}

\* offset of a zone from UTC, in ticks (date-fns-tz looks it up by name)
Offset(tz) == IF tz = "Z1" THEN 1 ELSE 0

\* zonedTimeToUtc(d, tz): the instant whose wall clock in tz reads d
zonedTimeToUtc(d, tz) == d - Offset(tz)

\* utcToZonedTime(d, tz): a Date whose UTC fields read the wall clock of d in tz
utcToZonedTime(d, tz) == d + Offset(tz)

\* getFullYear/getMonth/getDate of an instant: its calendar day
DayOf(t) == t \div TicksPerDay

\* format(date, "yyyyMMdd")
FormatStamp(t) == ToString(20240101 + DayOf(t))

StampDays == 0 .. (MaxDay + 4)

\* new Date(parseInt(s[0..4]), parseInt(s[4..6]) - 1, parseInt(s[6..8])):
\* midnight of the day the stamp names, NoTime (Invalid Date) for a segment
\* that is not a stamp
ParseStamp(s) ==
    IF \E d \in StampDays : ToString(20240101 + d) = s
    THEN (CHOOSE d \in StampDays : ToString(20240101 + d) = s) * TicksPerDay
    ELSE NoTime

(***************************************************************************)
(* CalendarEvent                                                           *)
(***************************************************************************)
BlankEvent ==
    [id |-> <<>>, title |-> "", start |-> 0, end |-> 0,
     source |-> "none", sourceId |-> <<>>,
     recurrence |-> <<>>, exceptions |-> <<>>,
     categories |-> {}, timezone |-> "none", allDay |-> FALSE,
     isRecurringInstance |-> FALSE, originalEventId |-> <<>>,
     exceptionDate |-> NoTime]

\* RecurrenceRule: frequency, interval, count (0: unset), until (NoTime: unset),
\* byDay ({}: unset); a daily rule
Rule(interval, count, until) ==
    [frequency |-> "daily", interval |-> interval, count |-> count, until |-> until,
     byDay |-> {}]

\* a weekly rule
WeeklyRule(interval, count, until, byDay) ==
    [frequency |-> "weekly", interval |-> interval, count |-> count, until |-> until,
     byDay |-> byDay]

\* an entry of CalendarEvent.exceptions
CancelledException(date) ==
    [date |-> date, status |-> "cancelled", modifiedEvent |-> <<>>]

ModifiedException(date, ev) ==
    [date |-> date, status |-> "modified",
     modifiedEvent |-> <<[title |-> ev.title, start |-> ev.start,
                          end |-> ev.end, allDay |-> ev.allDay]>>]

\* x || y for strings
OrStr(x, y) == IF x # "" /\ x # "none" THEN x ELSE y

\* x || y for instants
OrTime(x, y) == IF x # NoTime THEN x ELSE y

(***************************************************************************)
(* Sequences                                                               *)
(***************************************************************************)
RECURSIVE FlatMap(_, _)
FlatMap(F(_), s) == IF s = <<>> THEN <<>> ELSE F(Head(s)) \o FlatMap(F, Tail(s))

RECURSIVE Insert(_, _)
\* insert e after every element whose start is not later (stable)
Insert(e, s) ==
    IF s = <<>> THEN <<e>>
    ELSE IF Head(s).start <= e.start THEN <<Head(s)>> \o Insert(e, Tail(s))
    ELSE <<e>> \o s

RECURSIVE SortFrom(_, _)
SortFrom(acc, s) == IF s = <<>> THEN acc ELSE SortFrom(Insert(Head(s), acc), Tail(s))

\* a merge that leaves the concatenation as it is
SortByStart_Unsorted(s) == s

\* events.sort((a, b) => new Date(a.start) - new Date(b.start))
SortByStart(s) == SortFrom(<<>>, s)

Range(s) == {s[i] : i \in DOMAIN s}

\* the enumerations of a set, without repetition
Enumerations(S) ==
    {f \in [1 .. Cardinality(S) -> S] : \A i, j \in 1 .. Cardinality(S) : f[i] = f[j] => i = j}

\* kv.zrange(key, 0, -1): the members by ascending score (the start instant);
\* members of equal score come in the order of their serialized text, which
\* the model leaves open
ZRange(S) ==
    {f \in Enumerations(S) : \A i, j \in DOMAIN f : i < j => f[i].start <= f[j].start}

\* array.find(e => e.id === id): <<>> when there is none
FindById(s, id) ==
    IF \E i \in DOMAIN s : s[i].id = id
    THEN <<s[CHOOSE i \in DOMAIN s : s[i].id = id /\ \A j \in 1 .. (i - 1) : s[j].id # id]>>
    ELSE <<>>

(***************************************************************************)
(* RecurrenceEngine                                                        *)
(***************************************************************************)
\* the days the series of a rule are enumerated over
Horizon == MaxDay + 10

\* dayMap: RRule.MO.weekday is 0, ..., RRule.SU.weekday is 6
dayMap(day) ==
    CASE day = "MO" -> 0 [] day = "TU" -> 1 [] day = "WE" -> 2 [] day = "TH" -> 3
      [] day = "FR" -> 4 [] day = "SA" -> 5 [] day = "SU" -> 6

\* the weekday of a day; day 0 (2024-01-01) is a Monday
Weekday(d) == d % 7

\* recurrenceRuleToRRuleOptions: count and until are passed on only when
\* truthy, byweekday when byDay is set
recurrenceRuleToRRuleOptions(rule, eventStart) ==
    [freq |-> rule.frequency, interval |-> rule.interval, dtstart |-> eventStart,
     count |-> rule.count, until |-> rule.until,
     byweekday |-> {dayMap(day) : day \in rule.byDay}]

\* the names recurrenceRuleToRRuleOptions maps to a frequency of RRule
Frequencies == {"daily", "weekly", "monthly", "yearly"}

\* new RRule(options) throws: freq is undefined for a name that is not in the
\* map, and an option that is an Invalid Date is refused
RRuleThrows(opts) == opts.freq \notin Frequencies \/ opts.until = InvalidDate

\* generateRecurringInstances(event, ...) throws
ExpansionThrows(event) ==
    /\ event.recurrence # <<>>
    /\ RRuleThrows(recurrenceRuleToRRuleOptions(event.recurrence[1], event.start))

\* day d carries an occurrence of the unbounded series of new RRule(opts):
\* a daily rule steps by interval days from dtstart and keeps the days of
\* byweekday; a weekly rule takes every interval-th week (weeks start on
\* Monday) from the week of dtstart and in it the days of byweekday, the
\* weekday of dtstart when byweekday is not set
OnSeries(opts, d) ==
    LET d0 == DayOf(opts.dtstart)
    IN  /\ d >= d0
        /\ IF opts.freq = "weekly"
           THEN /\ ((d \div 7) - (d0 \div 7)) % opts.interval = 0
                /\ Weekday(d) \in (IF opts.byweekday = {} THEN {Weekday(d0)}
                                   ELSE opts.byweekday)
           ELSE /\ (d - d0) % opts.interval = 0
                /\ (opts.byweekday = {} \/ Weekday(d) \in opts.byweekday)

SeriesDays(opts) == {d \in 0 .. Horizon : OnSeries(opts, d)}

\* the instant of the occurrence on day d: the time of day is that of dtstart
OccurrenceOn(opts, d) == (d * TicksPerDay) + (opts.dtstart % TicksPerDay)

\* the number of occurrences of the series before day d
IndexOf(opts, d) == Cardinality({e \in SeriesDays(opts) : e < d})

\* the k-th occurrence (k = 0, 1, ...) of the series
Occurrence(opts, k) ==
    OccurrenceOn(opts, CHOOSE d \in SeriesDays(opts) : IndexOf(opts, d) = k)

\* a search that counts count from the first occurrence in the window
Between_CountInWindow(opts, after, before) ==
    LET inWindow == {d \in SeriesDays(opts) :
                        /\ (opts.until # NoTime => OccurrenceOn(opts, d) <= opts.until)
                        /\ after <= OccurrenceOn(opts, d)
                        /\ OccurrenceOn(opts, d) <= before}
        days == {d \in inWindow :
                    opts.count # 0 => Cardinality({e \in inWindow : e < d}) < opts.count}
        n == Cardinality(days)
        nth[i \in 1 .. n] == CHOOSE d \in days : Cardinality({e \in days : e < d}) = i - 1
    IN  [i \in 1 .. n |-> OccurrenceOn(opts, nth[i])]

\* rule.between(after, before, true): the occurrences of the series, counted
\* from dtstart and cut by count and until, that lie in [after, before]
Between(opts, after, before) ==
    LET days == {d \in SeriesDays(opts) :
                    /\ (opts.count # 0 => IndexOf(opts, d) < opts.count)
                    /\ (opts.until # NoTime => OccurrenceOn(opts, d) <= opts.until)
                    /\ after <= OccurrenceOn(opts, d)
                    /\ OccurrenceOn(opts, d) <= before}
        n == Cardinality(days)
        nth[i \in 1 .. n] == CHOOSE d \in days : Cardinality({e \in days : e < d}) = i - 1
    IN  [i \in 1 .. n |-> OccurrenceOn(opts, nth[i])]

\* event.exceptions?.find(ex => same year, month and day as instanceStart)
FindException(event, instanceStart) ==
    IF event.exceptions = <<>> THEN <<>>
    ELSE LET exs == event.exceptions[1]
             hit == {i \in DOMAIN exs : DayOf(exs[i].date) = DayOf(instanceStart)}
         IN  IF hit = {} THEN <<>>
             ELSE <<exs[CHOOSE i \in hit : \A j \in hit : i <= j]>>

\* the instance of one occurrence: <<>> when cancelled
InstanceOf(event, instanceStart) ==
    LET duration == event.end - event.start
        ex == FindException(event, instanceStart)
        newId == event.id \o <<FormatStamp(instanceStart)>>
    IN  IF ex # <<>> /\ ex[1].status = "cancelled" THEN <<>>
        ELSE IF ex # <<>> /\ ex[1].status = "modified" /\ ex[1].modifiedEvent # <<>>
        THEN <<[event EXCEPT !.id = newId,
                             !.start = ex[1].modifiedEvent[1].start,
                             !.end = ex[1].modifiedEvent[1].end,
                             !.title = OrStr(ex[1].modifiedEvent[1].title, event.title),
                             !.isRecurringInstance = TRUE,
                             !.originalEventId = event.id,
                             !.exceptionDate = ex[1].date]>>
        ELSE <<[event EXCEPT !.id = newId,
                             !.start = instanceStart,
                             !.end = instanceStart + duration,
                             !.isRecurringInstance = TRUE,
                             !.originalEventId = event.id]>>

\* an expansion whose series begins at the window when the window begins later
\* than the master
generateRecurringInstances_AnchoredAtWindow(event, startRange, endRange) ==
    IF event.recurrence = <<>> THEN <<event>>
    ELSE LET anchor == IF startRange > event.start THEN startRange ELSE event.start
             opts == recurrenceRuleToRRuleOptions(event.recurrence[1], anchor)
             occurrences == Between(opts, startRange, endRange)
             One(d) == InstanceOf(event, d)
         IN  FlatMap(One, occurrences)

\* the list generateRecurringInstances returns; it returns none where
\* ExpansionThrows
generateRecurringInstances(event, startRange, endRange) ==
    IF event.recurrence = <<>> THEN <<event>>
    ELSE IF ExpansionThrows(event) THEN <<>>
    ELSE LET opts == recurrenceRuleToRRuleOptions(event.recurrence[1], event.start)
             occurrences == Between(opts, startRange, endRange)
             One(d) == InstanceOf(event, d)
         IN  FlatMap(One, occurrences)

\* a conversion that leaves the timezone field as it was
adjustEventTimezone_KeepsZone(event, fromTimezone, toTimezone) ==
    IF fromTimezone = toTimezone \/ event.allDay THEN event
    ELSE [event EXCEPT !.start = utcToZonedTime(event.start, toTimezone),
                       !.end = utcToZonedTime(event.end, toTimezone)]

\* adjustEventTimezone(event, fromTimezone, toTimezone)
adjustEventTimezone(event, fromTimezone, toTimezone) ==
    IF fromTimezone = toTimezone \/ event.allDay THEN event
    ELSE [event EXCEPT !.start = utcToZonedTime(event.start, toTimezone),
                       !.end = utcToZonedTime(event.end, toTimezone),
                       !.timezone = toTimezone]

(***************************************************************************)
(* ExternalProviderClient (src/lib/google-calendar.ts)                     *)
(***************************************************************************)
\* lifetime the token endpoint grants (data.expires_in), in seconds
ExpiresIn == 2 * Skew

\* hasGoogleCalendar: provider is google and both tokens are set
hasGoogleCalendar(u) == u.provider = "google" /\ u.accessToken # 0 /\ u.refreshToken # 0

\* Date.now() >= (expiresAt - 300) * 1000
isExpired(expiresAt, t) == t >= expiresAt - Skew

\* a refresh step that hands out the stored token whatever its expiry
refreshAccessTokenIfNeeded_Stale(u, expiresAt, t, refreshOk) ==
    [ok |-> TRUE, token |-> u.accessToken, user |-> u]

\* refreshAccessTokenIfNeeded: ok = FALSE when it throws; refreshOk is the
\* answer of the token endpoint (response.ok)
refreshAccessTokenIfNeeded(u, expiresAt, t, refreshOk) ==
    IF ~isExpired(expiresAt, t)
    THEN [ok |-> TRUE, token |-> u.accessToken, user |-> u]
    ELSE IF ~refreshOk
    THEN [ok |-> FALSE, token |-> 0, user |-> u]
    ELSE [ok |-> TRUE, token |-> u.accessToken + 1,
          user |-> [u EXCEPT !.accessToken = u.accessToken + 1,
                             !.expiresAt = t + ExpiresIn]]

\* convertGoogleEventToCalendarEvent
convertGoogleEventToCalendarEvent(g) ==
    [BlankEvent EXCEPT !.id = <<"google", g.id>>, !.title = g.summary,
                       !.start = g.start, !.end = g.end,
                       !.source = "google", !.timezone = "UTC"]

\* convertCalendarEventToGoogleEvent: the provider resource of an event
convertCalendarEventToGoogleEvent(event) ==
    [id |-> IF Len(event.id) >= 2 /\ event.id[1] = "google" THEN event.id[2] ELSE "",
     summary |-> event.title, start |-> event.start, end |-> event.end]

\* JSON.stringify of the promise convertCalendarEventToGoogleEvent returns
\* (the call is not awaited): "{}", a resource with no field set
StringifyPending(resource) == [id |-> "", summary |-> "", start |-> NoTime, end |-> NoTime]

\* the request body of createGoogleCalendarEvent and updateGoogleCalendarEvent
RequestBody(event) == StringifyPending(convertCalendarEventToGoogleEvent(event))

\* the provider rejects an insert or update whose body lacks start or end
ProviderAccepts(body) == body.start # NoTime /\ body.end # NoTime

\* events.list with timeMin / timeMax: the events that end after timeMin and
\* start before timeMax
ListItems(store, timeMin, timeMax) == {g \in store : g.end > timeMin /\ g.start < timeMax}

\* storeGoogleEventsInDatabase: new ids are added, known ids are skipped, and
\* mirrored entries whose id is not in the response are removed
storeGoogleEventsInDatabase(mir, events) ==
    LET existingEventIds == {m.id : m \in mir}
        currentEventIds == {e.id : e \in Range(events)}
        added == {e \in Range(events) : e.id \notin existingEventIds}
    IN  {m \in mir : m.id \in currentEventIds} \cup added

\* a provider read that writes its empty answer through to the mirror when the
\* fetch fails
getGoogleCalendarEvents_StoresOnFailure(u, mir, t, startDate, endDate, refreshOk, fetchOk, items) ==
    LET r == refreshAccessTokenIfNeeded(u, u.expiresAt, t, refreshOk)
        events == [i \in DOMAIN items |-> convertGoogleEventToCalendarEvent(items[i])]
    IN  IF ~r.ok
        THEN [events |-> <<>>, user |-> u, mirror |-> mir, calls |-> <<>>, failed |-> TRUE]
        ELSE IF ~fetchOk
        THEN [events |-> <<>>, user |-> r.user,
              mirror |-> storeGoogleEventsInDatabase(mir, <<>>),
              calls |-> <<[kind |-> "list", token |-> r.token]>>, failed |-> TRUE]
        ELSE [events |-> events, user |-> r.user,
              mirror |-> storeGoogleEventsInDatabase(mir, events),
              calls |-> <<[kind |-> "list", token |-> r.token]>>, failed |-> FALSE]

\* getGoogleCalendarEvents: items is the provider's answer in arrival order;
\* every failure is caught and answered with []
getGoogleCalendarEvents(u, mir, t, startDate, endDate, refreshOk, fetchOk, items) ==
    LET r == refreshAccessTokenIfNeeded(u, u.expiresAt, t, refreshOk)
        events == [i \in DOMAIN items |-> convertGoogleEventToCalendarEvent(items[i])]
    IN  IF ~r.ok
        THEN [events |-> <<>>, user |-> u, mirror |-> mir, calls |-> <<>>, failed |-> TRUE]
        ELSE IF ~fetchOk
        THEN [events |-> <<>>, user |-> r.user, mirror |-> mir,
              calls |-> <<[kind |-> "list", token |-> r.token]>>, failed |-> TRUE]
        ELSE [events |-> events, user |-> r.user,
              mirror |-> storeGoogleEventsInDatabase(mir, events),
              calls |-> <<[kind |-> "list", token |-> r.token]>>, failed |-> FALSE]

\* createGoogleCalendarEvent: event = <<>> stands for null
createGoogleCalendarEvent(u, store, t, event, refreshOk, fetchOk) ==
    LET r == refreshAccessTokenIfNeeded(u, u.expiresAt, t, refreshOk)
        body == RequestBody(event)
        created == [body EXCEPT !.id = "g3"]
    IN  IF ~r.ok
        THEN [event |-> <<>>, user |-> u, google |-> store, calls |-> <<>>]
        ELSE IF ~(fetchOk /\ ProviderAccepts(body))
        THEN [event |-> <<>>, user |-> r.user, google |-> store,
              calls |-> <<[kind |-> "create", token |-> r.token]>>]
        ELSE [event |-> <<convertGoogleEventToCalendarEvent(created)>>, user |-> r.user,
              google |-> store \cup {created},
              calls |-> <<[kind |-> "create", token |-> r.token]>>]

\* updateGoogleCalendarEvent
updateGoogleCalendarEvent(u, store, t, event, refreshOk, fetchOk) ==
    LET r == refreshAccessTokenIfNeeded(u, u.expiresAt, t, refreshOk)
        body == RequestBody(event)
        googleEventId == IF Len(event.id) >= 2 THEN event.id[2] ELSE ""
        updated == [body EXCEPT !.id = googleEventId]
    IN  IF ~(Len(event.id) >= 2 /\ event.id[1] = "google")
        THEN [event |-> <<>>, user |-> u, google |-> store, calls |-> <<>>]
        ELSE IF ~r.ok
        THEN [event |-> <<>>, user |-> u, google |-> store, calls |-> <<>>]
        ELSE IF ~(fetchOk /\ ProviderAccepts(body) /\ \E g \in store : g.id = googleEventId)
        THEN [event |-> <<>>, user |-> r.user, google |-> store,
              calls |-> <<[kind |-> "update", token |-> r.token]>>]
        ELSE [event |-> <<convertGoogleEventToCalendarEvent(updated)>>, user |-> r.user,
              google |-> {g \in store : g.id # googleEventId} \cup {updated},
              calls |-> <<[kind |-> "update", token |-> r.token]>>]

\* deleteGoogleCalendarEvent: ok is its return value (response.ok, false when
\* the id is not a provider id or the refresh throws)
deleteGoogleCalendarEvent(u, store, t, eventId, refreshOk, fetchOk) ==
    LET r == refreshAccessTokenIfNeeded(u, u.expiresAt, t, refreshOk)
        googleEventId == IF Len(eventId) >= 2 THEN eventId[2] ELSE ""
        found == \E g \in store : g.id = googleEventId
    IN  IF ~(Len(eventId) >= 2 /\ eventId[1] = "google")
        THEN [ok |-> FALSE, user |-> u, google |-> store, calls |-> <<>>]
        ELSE IF ~r.ok
        THEN [ok |-> FALSE, user |-> u, google |-> store, calls |-> <<>>]
        ELSE [ok |-> fetchOk /\ found, user |-> r.user,
              google |-> IF fetchOk THEN {g \in store : g.id # googleEventId} ELSE store,
              calls |-> <<[kind |-> "delete", token |-> r.token]>>]

(***************************************************************************)
(* EventLedger and metadata sidecar (@vercel/kv)                           *)
(***************************************************************************)
\* kv.zadd(key, {score: start, member}): the score is the member's start
ZAdd(S, member) == S \cup {member}

\* kv.zrem(key, member): removes the member whose serialized value is equal
ZRem(S, member) == S \ {member}

\* kv.hset(`event_meta:${userId}:${id}`, {...})
HSetMeta(M, id, event) ==
    {m \in M : m.id # id} \cup
    {[id |-> id, categories |-> event.categories,
      recurrence |-> event.recurrence,
      exceptions |-> IF event.exceptions = <<>> THEN <<>> ELSE event.exceptions[1]]}

\* kv.del(`event_meta:${userId}:${id}`)
DelMeta(M, id) == {m \in M : m.id # id}

\* the condition under which the write path stores sidecar metadata
NeedsMeta(event) == event.categories # {} \/ event.recurrence # <<>>

\* getUserTimezone
getUserTimezone(u) == OrStr(u.timezone, "UTC")

(***************************************************************************)
(* SourceReconciler: getEvents                                             *)
(***************************************************************************)
\* a window test that only looks at the event's start
InRange_StartOnly(event, startTimestamp, endTimestamp) ==
    event.start >= startTimestamp /\ event.start <= endTimestamp

\* the test getEvents applies to a non-recurring local event
InRange(event, startTimestamp, endTimestamp) ==
    \/ (event.start >= startTimestamp /\ event.start <= endTimestamp)
    \/ (event.end >= startTimestamp /\ event.end <= endTimestamp)
    \/ (event.start <= startTimestamp /\ event.end >= endTimestamp)

\* the contribution of one ledger entry to getEvents
LocalOf(event, startUtc, endUtc, timezone) ==
    IF event.recurrence # <<>>
    THEN generateRecurringInstances(event, startUtc, endUtc)
    ELSE IF InRange(event, startUtc, endUtc)
    THEN <<adjustEventTimezone(event, OrStr(event.timezone, "UTC"), timezone)>>
    ELSE <<>>

\* the local-derived part of getEvents, in ledger order
LocalEvents(localEvents, startUtc, endUtc, timezone) ==
    LET One(e) == LocalOf(e, startUtc, endUtc, timezone)
    IN  FlatMap(One, localEvents)

\* the list getEvents returns, given what the two sources delivered
MergeEvents(googleEvents, localEvents, startUtc, endUtc, timezone) ==
    SortByStart(googleEvents \o LocalEvents(localEvents, startUtc, endUtc, timezone))

\* the calls in progress when no two calls run side by side: none
NoProcs == [call |-> <<>>, mirror0 |-> {}]

BlankLast ==
    [op |-> "init", id |-> <<>>, event |-> BlankEvent, window |-> <<0, 0>>,
     deleteAllInstances |-> FALSE, ret |-> <<>>, ok |-> TRUE, threw |-> FALSE,
     connected |-> FALSE, providerFailed |-> FALSE, calls |-> <<>>,
     zones |-> <<"none", "none">>, minDurationMinutes |-> 0,
     session |-> "", tool |-> "", request |-> <<>>, args |-> <<>>,
     participantsChecked |-> <<>>, participantsUnavailable |-> <<>>]

\* the loop over localEvents has no handler: an expansion that throws ends
\* getEvents, after the provider call and its write to the mirror
getEvents(start, end, refreshOk, fetchOk, items, localEvents) ==
    LET timezone == getUserTimezone(user)
        threw == \E i \in DOMAIN localEvents : ExpansionThrows(localEvents[i])
        startUtc == zonedTimeToUtc(start, timezone)
        endUtc == zonedTimeToUtc(end, timezone)
        g == IF hasGoogleCalendar(user)
             THEN getGoogleCalendarEvents(user, mirror, now, startUtc, endUtc,
                                          refreshOk, fetchOk, items)
             ELSE [events |-> <<>>, user |-> user, mirror |-> mirror,
                   calls |-> <<>>, failed |-> FALSE]
    IN  /\ user' = g.user
        /\ mirror' = g.mirror
        /\ last' = [BlankLast EXCEPT !.op = "getEvents", !.window = <<startUtc, endUtc>>,
                                     !.ret = IF threw THEN <<>>
                                             ELSE MergeEvents(g.events, localEvents,
                                                              startUtc, endUtc, timezone),
                                     !.threw = threw,
                                     !.connected = hasGoogleCalendar(user),
                                     !.providerFailed = g.failed,
                                     !.calls = g.calls]
        /\ UNCHANGED <<ledger, eventMeta, google, now>>

(***************************************************************************)
(* SourceReconciler: write path                                            *)
(***************************************************************************)
\* the id createEvent generates when none is given: `event_${uuidv4()}`
GeneratedId == <<"event", "u1">>

createEvent(input, refreshOk, fetchOk) ==
    LET timezone == getUserTimezone(user)
        newEvent == [input EXCEPT !.timezone = OrStr(input.timezone, timezone),
                                  !.id = IF input.id = <<>> THEN GeneratedId ELSE input.id]
        g == createGoogleCalendarEvent(user, google, now, newEvent, refreshOk, fetchOk)
        fallback == [newEvent EXCEPT !.source = "local"]
    IN  IF newEvent.source = "local" \/ ~hasGoogleCalendar(user)
        THEN /\ ledger' = ZAdd(ledger, newEvent)
             /\ last' = [BlankLast EXCEPT !.op = "createEvent", !.event = newEvent,
                                          !.id = newEvent.id, !.ret = <<newEvent>>]
             /\ UNCHANGED <<mirror, eventMeta, user, google, now>>
        ELSE IF g.event # <<>>
        THEN /\ eventMeta' = IF NeedsMeta(newEvent)
                             THEN HSetMeta(eventMeta, g.event[1].id, newEvent)
                             ELSE eventMeta
             /\ user' = g.user
             /\ google' = g.google
             /\ last' = [BlankLast EXCEPT !.op = "createEvent", !.event = newEvent,
                                          !.id = newEvent.id, !.ret = g.event,
                                          !.connected = TRUE, !.calls = g.calls]
             /\ UNCHANGED <<ledger, mirror, now>>
        ELSE /\ ledger' = ZAdd(ledger, fallback)
             /\ user' = g.user
             /\ google' = g.google
             /\ last' = [BlankLast EXCEPT !.op = "createEvent", !.event = newEvent,
                                          !.id = newEvent.id, !.ret = <<fallback>>,
                                          !.connected = TRUE, !.providerFailed = TRUE,
                                          !.calls = g.calls]
             /\ UNCHANGED <<mirror, eventMeta, now>>

\* exceptions with the entry of the given date replaced, or the entry appended
UpsertException(exceptions, entry) ==
    IF \E i \in DOMAIN exceptions : exceptions[i].date = entry.date
    THEN LET idx == CHOOSE i \in DOMAIN exceptions :
                        /\ exceptions[i].date = entry.date
                        /\ \A j \in 1 .. (i - 1) : exceptions[j].date # entry.date
         IN  [exceptions EXCEPT ![idx] = entry]
    ELSE Append(exceptions, entry)

\* the ledger after "zrem originalEvent, zadd updatedOriginalEvent", where the
\* new list was built in place on originalEvent.exceptions when the master had
\* one: the value handed to zrem is then the master as it reads after the
\* change, not the stored member
ReplaceMaster(S, originalEvent, exceptions) ==
    LET updatedOriginalEvent == [originalEvent EXCEPT !.exceptions = <<exceptions>>]
        removed == IF originalEvent.exceptions = <<>>
                   THEN originalEvent ELSE updatedOriginalEvent
    IN  ZAdd(ZRem(S, removed), updatedOriginalEvent)

updateEvent(input, refreshOk, fetchOk, allEvents) ==
    LET timezone == getUserTimezone(user)
        updatedEvent == [input EXCEPT !.timezone = OrStr(input.timezone, timezone)]
        original == FindById(allEvents, updatedEvent.originalEventId)
        exceptionDate == OrTime(updatedEvent.exceptionDate, updatedEvent.start)
        exceptions == IF original[1].exceptions = <<>> THEN <<>>
                      ELSE original[1].exceptions[1]
        tokens == user.accessToken # 0 /\ user.refreshToken # 0
        g == updateGoogleCalendarEvent(user, google, now, updatedEvent, refreshOk, fetchOk)
        oldEvent == FindById(allEvents, updatedEvent.id)
        base == [BlankLast EXCEPT !.op = "updateEvent", !.event = updatedEvent,
                                  !.id = updatedEvent.id]
    IN  IF /\ updatedEvent.isRecurringInstance
           /\ updatedEvent.originalEventId # <<>>
           /\ original # <<>>
           /\ original[1].recurrence # <<>>
        THEN /\ ledger' = ReplaceMaster(ledger, original[1],
                              UpsertException(exceptions,
                                  ModifiedException(exceptionDate, updatedEvent)))
             /\ last' = [base EXCEPT !.ret = <<updatedEvent>>]
             /\ UNCHANGED <<mirror, eventMeta, user, google, now>>
        ELSE IF updatedEvent.source = "google" /\ tokens /\ g.event # <<>>
        THEN /\ eventMeta' = IF NeedsMeta(updatedEvent)
                             THEN HSetMeta(eventMeta, g.event[1].id, updatedEvent)
                             ELSE eventMeta
             /\ user' = g.user
             /\ google' = g.google
             /\ last' = [base EXCEPT !.ret = g.event, !.connected = TRUE, !.calls = g.calls]
             /\ UNCHANGED <<ledger, mirror, now>>
        ELSE /\ ledger' = ZAdd(IF oldEvent # <<>> THEN ZRem(ledger, oldEvent[1]) ELSE ledger,
                               updatedEvent)
             /\ user' = IF updatedEvent.source = "google" /\ tokens THEN g.user ELSE user
             /\ google' = IF updatedEvent.source = "google" /\ tokens THEN g.google ELSE google
             /\ last' = [base EXCEPT !.ret = <<updatedEvent>>,
                                     !.connected = updatedEvent.source = "google" /\ tokens,
                                     !.providerFailed = updatedEvent.source = "google" /\ tokens,
                                     !.calls = IF updatedEvent.source = "google" /\ tokens
                                               THEN g.calls ELSE <<>>]
             /\ UNCHANGED <<mirror, eventMeta, now>>

deleteEvent(eventId, deleteAllInstances, refreshOk, fetchOk, allEvents) ==
    LET original == IF eventId = <<>> THEN <<>> ELSE FindById(allEvents, <<eventId[1]>>)
        instanceDate == ParseStamp(eventId[2])
        exceptions == IF original[1].exceptions = <<>> THEN <<>>
                      ELSE original[1].exceptions[1]
        event == FindById(allEvents, eventId)
        base == [BlankLast EXCEPT !.op = "deleteEvent", !.id = eventId,
                                  !.deleteAllInstances = deleteAllInstances]
        gAbsent == deleteGoogleCalendarEvent(user, google, now, eventId, refreshOk, fetchOk)
        viaGoogle == event # <<>> /\ event[1].source = "google" /\ event[1].sourceId # <<>>
                     /\ user.accessToken # 0 /\ user.refreshToken # 0
        gPresent == deleteGoogleCalendarEvent(user, google, now, event[1].sourceId,
                                              refreshOk, fetchOk)
    IN  IF /\ Len(eventId) >= 2
           /\ ~deleteAllInstances
           /\ original # <<>>
           /\ original[1].recurrence # <<>>
        THEN IF instanceDate = NoTime
             THEN \* instanceDate.toISOString() throws RangeError on an Invalid Date
                  /\ last' = [base EXCEPT !.ok = FALSE, !.threw = TRUE]
                  /\ UNCHANGED <<ledger, mirror, eventMeta, user, google, now>>
             ELSE /\ ledger' = ReplaceMaster(ledger, original[1],
                                   Append(exceptions, CancelledException(instanceDate)))
                  /\ last' = base
                  /\ UNCHANGED <<mirror, eventMeta, user, google, now>>
        ELSE IF event = <<>>
        THEN IF hasGoogleCalendar(user)
             THEN /\ eventMeta' = DelMeta(eventMeta, eventId)
                  /\ user' = gAbsent.user
                  /\ google' = gAbsent.google
                  /\ last' = [base EXCEPT !.connected = TRUE, !.calls = gAbsent.calls,
                                          !.providerFailed = ~gAbsent.ok]
                  /\ UNCHANGED <<ledger, mirror, now>>
             ELSE /\ last' = [base EXCEPT !.ok = FALSE]
                  /\ UNCHANGED <<ledger, mirror, eventMeta, user, google, now>>
        ELSE /\ ledger' = ZRem(ledger, event[1])
             /\ eventMeta' = DelMeta(eventMeta, eventId)
             /\ user' = IF viaGoogle THEN gPresent.user ELSE user
             /\ google' = IF viaGoogle THEN gPresent.google ELSE google
             /\ last' = [base EXCEPT !.connected = viaGoogle,
                                     !.calls = IF viaGoogle THEN gPresent.calls ELSE <<>>,
                                     !.providerFailed = viaGoogle /\ ~gPresent.ok]
             /\ UNCHANGED <<mirror, now>>

(***************************************************************************)
(* Inputs                                                                  *)
(***************************************************************************)
Titles == {"a", "b"}

\* the events a caller hands to createEvent
CreateInputs ==
    {[BlankEvent EXCEPT !.id = id, !.title = "a", !.start = IF id = <<>> THEN 0 ELSE 1,
                        !.end = IF id = <<>> THEN 1 ELSE 3,
                        !.source = src, !.recurrence = rec] :
        id \in {<<>>, <<"m1">>}, src \in {"none", "local"},
        rec \in {<<>>, <<Rule(1, 0, NoTime)>>}}

\* the events the provider may hold
GoogleUniverse ==
    {[id |-> "g1", summary |-> t, start |-> 1, end |-> 2] : t \in Titles}
    \cup {[id |-> "g2", summary |-> "a", start |-> 3, end |-> 4]}

\* the windows a caller asks for (wall clock of the user's zone)
Windows == {<<0, MaxTick>>, <<2, 3>>}

\* instances a client may still hold of masters that are not in the ledger:
\* the first-day instance of each master createEvent may have stored under a
\* given id
StaleInstances ==
    UNION {Range(generateRecurringInstances(
                    [m EXCEPT !.timezone = getUserTimezone(user)], 0, TicksPerDay - 1)) :
           m \in {c \in CreateInputs :
                     c.recurrence # <<>> /\ c.source = "local" /\ c.id # <<>>}}

\* the events a client may hold: what the sources currently yield, the ledger
\* entries themselves, and stale instances
Held(allEvents) ==
    Range(LocalEvents(allEvents, 0, MaxTick, getUserTimezone(user)))
    \cup ledger
    \cup {convertGoogleEventToCalendarEvent(g) : g \in google}
    \cup {i \in StaleInstances : \A e \in ledger : e.id # i.originalEventId}

\* the edits a caller makes before updateEvent: a title and a move by days
Edits(e) ==
    {[e EXCEPT !.title = t, !.start = e.start + d, !.end = e.end + d] :
        t \in {"b"}, d \in {0, TicksPerDay}}

(***************************************************************************)
(* Specification                                                           *)
(***************************************************************************)
\* one more state-changing step of the run, of at most MaxSteps
Step == steps < MaxSteps /\ steps' = steps + 1 /\ UNCHANGED procs

\* the id has the prefix "google_"
IsGoogleId(id) == Len(id) >= 2 /\ id[1] = "google"

\* the answers <<refreshOk, fetchOk>> of the token endpoint and of the calendar
\* API that make a difference to an operation; reaches tells whether the
\* operation can get as far as the provider client
Outcomes(reaches) ==
    IF ~(reaches /\ user.accessToken # 0 /\ user.refreshToken # 0) THEN {<<TRUE, TRUE>>}
    ELSE IF ~isExpired(user.expiresAt, now) THEN {<<TRUE, TRUE>>, <<TRUE, FALSE>>}
    ELSE {<<TRUE, TRUE>>, <<TRUE, FALSE>>, <<FALSE, FALSE>>}

Init ==
    /\ ledger = {}
    /\ mirror = {}
    /\ eventMeta = {}
    /\ google = {}
    /\ now = 0
    /\ \E tz \in Zones, p \in {"google", "none"} :
          user = [provider |-> p,
                  accessToken |-> IF p = "google" THEN 1 ELSE 0,
                  refreshToken |-> IF p = "google" THEN 1 ELSE 0,
                  expiresAt |-> IF p = "google" THEN ExpiresIn ELSE 0,
                  timezone |-> tz]
    /\ last = BlankLast
    /\ steps = 0
    /\ procs = NoProcs

GetEvents ==
    \E w \in Windows, o \in Outcomes(TRUE), localEvents \in ZRange(ledger) :
        \E items \in Enumerations(ListItems(google,
                                            zonedTimeToUtc(w[1], getUserTimezone(user)),
                                            zonedTimeToUtc(w[2], getUserTimezone(user)))) :
            /\ getEvents(w[1], w[2], o[1], o[2], items, localEvents)
            /\ UNCHANGED <<steps, procs>>

CreateEvent ==
    \E input \in CreateInputs :
      \E o \in Outcomes(input.source # "local") :
        /\ Step
        /\ createEvent(input, o[1], o[2])

UpdateEvent ==
    \E allEvents \in ZRange(ledger) :
        \E held \in Held(allEvents) :
            \E input \in Edits(held), o \in Outcomes(IsGoogleId(held.id)) :
                /\ Step
                /\ input.start <= MaxTick
                /\ updateEvent(input, o[1], o[2], allEvents)

DeleteEvent ==
    \E allEvents \in ZRange(ledger), deleteAllInstances \in BOOLEAN :
        \E held \in Held(allEvents) :
          \E o \in Outcomes(IsGoogleId(held.id) \/ held.sourceId # <<>>) :
            /\ Step
            /\ deleteEvent(held.id, deleteAllInstances, o[1], o[2], allEvents)

\* the provider's calendar changes upstream: an event appears, changes or goes
UpstreamChange ==
    /\ Step
    /\ \E g \in GoogleUniverse :
          \/ google' = {x \in google : x.id # g.id} \cup {g} /\ g \notin google
          \/ google' = google \ {g} /\ g \in google
    /\ last' = [BlankLast EXCEPT !.op = "upstream"]
    /\ UNCHANGED <<ledger, mirror, eventMeta, user, now>>

\* time passes
Tick ==
    /\ Step
    /\ now' = now + Skew
    /\ last' = [BlankLast EXCEPT !.op = "tick"]
    /\ UNCHANGED <<ledger, mirror, eventMeta, user, google>>

Next ==
    \/ GetEvents
    \/ CreateEvent
    \/ UpdateEvent
    \/ DeleteEvent
    \/ UpstreamChange
    \/ Tick

Spec == Init /\ [][Next]_vars

(***************************************************************************)
(* The write path with rules a caller may hand in that are not well formed *)
(***************************************************************************)
\* rules with both count and until, and with an until that is not a date
MalformedRules == {Rule(1, 2, TicksPerDay), Rule(1, 0, InvalidDate)}

\* the rule has an interval of at least 1 and not both count and until
WellFormed(rule) ==
    /\ rule.interval >= 1
    /\ ~(rule.count # 0 /\ rule.until # NoTime)

MalformedInputs ==
    {[BlankEvent EXCEPT !.id = <<"m2">>, !.title = "a", !.start = 0, !.end = 1,
                        !.source = "local", !.recurrence = <<r>>] :
        r \in MalformedRules}

\* createEvent with such a rule
CreateMalformed ==
    \E input \in MalformedInputs :
        /\ Step
        /\ createEvent(input, TRUE, TRUE)

\* updateEvent of a ledger entry with such a rule put in
UpdateMalformed ==
    \E allEvents \in ZRange(ledger) :
        \E e \in ledger, r \in MalformedRules :
            /\ Step
            /\ updateEvent([e EXCEPT !.recurrence = <<r>>], TRUE, TRUE, allEvents)

RuleNext ==
    \/ GetEvents
    \/ CreateEvent
    \/ CreateMalformed
    \/ UpdateMalformed

RuleSpec == Init /\ [][RuleNext]_vars

(***************************************************************************)
(* Events that name a zone of their own: createEvent keeps the timezone    *)
(* its caller supplied                                                     *)
(***************************************************************************)
ZonedInputs ==
    {[BlankEvent EXCEPT !.id = <<"z1">>, !.title = "a", !.start = 0, !.end = 1,
                        !.source = "local", !.timezone = tz, !.allDay = ad,
                        !.recurrence = rec] :
        tz \in Zones, ad \in BOOLEAN, rec \in {<<>>, <<Rule(1, 0, NoTime)>>}}

\* createEvent with a timezone given by the caller
CreateZoned ==
    \E input \in ZonedInputs :
        /\ Step
        /\ createEvent(input, TRUE, TRUE)

ZoneNext ==
    \/ GetEvents
    \/ CreateEvent
    \/ CreateZoned

ZoneSpec == Init /\ [][ZoneNext]_vars

(***************************************************************************)
(* Events with side-table metadata, created while the token endpoint and   *)
(* the calendar API answer every request                                   *)
(***************************************************************************)
MetaInputs ==
    {[BlankEvent EXCEPT !.id = id, !.title = "a", !.start = 1, !.end = 2,
                        !.categories = cats, !.recurrence = rec] :
        id \in {<<>>, <<"m1">>}, cats \in {{}, {"work"}},
        rec \in {<<>>, <<Rule(1, 0, NoTime)>>}}

\* createEvent of such an event; the provider is reachable
CreateWithMeta ==
    \E input \in MetaInputs :
        /\ Step
        /\ createEvent(input, TRUE, TRUE)

MetaNext ==
    \/ GetEvents
    \/ CreateWithMeta
    \/ UpstreamChange
    \/ Tick

MetaSpec == Init /\ [][MetaNext]_vars

(***************************************************************************)
(* RecurrenceEngine and TimezoneNormalizer on their own: a master of the   *)
(* ledger is expanded over a window                                        *)
(***************************************************************************)
\* the rules of the masters: daily and weekly, with and without count, until
\* and byDay
EngineRules ==
    {Rule(i, c, NoTime) : i \in {1, 2}, c \in {0, 2, 3}}
    \cup {Rule(1, 0, 2 * TicksPerDay + 1)}
    \cup {WeeklyRule(1, c, NoTime, {"MO", "WE"}) : c \in {0, 4}}
    \cup {WeeklyRule(2, 0, NoTime, {})}

\* what updateEvent records of an edited occurrence that began at t: the
\* title left empty or set, the times moved by a tick, allDay set or not
EnginePayloads(t) ==
    {[BlankEvent EXCEPT !.title = ti, !.start = t + 1, !.end = t + 2, !.allDay = ad] :
        ti \in {"", "b"}, ad \in BOOLEAN}

\* the exception lists of a master that starts at s: none, one cancelled
\* occurrence, or a cancelled and a modified occurrence on different days
EngineExceptions(s) ==
    LET first == s
        third == s + 2 * TicksPerDay
    IN  {<<>>}
        \cup {<<<<CancelledException(c)>>>> : c \in {first, third}}
        \cup {<<<<CancelledException(c[1]), ModifiedException(c[2], p)>>>> :
                  c \in {<<first, third>>, <<third, first>>},
                  p \in EnginePayloads(first) \cup EnginePayloads(third)}

EngineMasters ==
    UNION {{[BlankEvent EXCEPT !.id = <<"m1">>, !.title = "a", !.start = s, !.end = s + 1,
                               !.source = "local", !.timezone = "UTC",
                               !.recurrence = <<r>>, !.exceptions = x] :
               r \in EngineRules, x \in EngineExceptions(s)} : s \in {0, 1}}

\* the events without a rule: zoned or not, all-day or not
EnginePlain ==
    {[BlankEvent EXCEPT !.id = <<"e1">>, !.title = "a", !.start = s, !.end = s + 1,
                        !.source = "local", !.timezone = tz, !.allDay = ad] :
        s \in {0, 3}, tz \in Zones \cup {"none"}, ad \in BOOLEAN}

\* the last instant of the days the series are enumerated over
LastTick == (Horizon - 1) * TicksPerDay - 1

\* the windows of an expansion, the first one over every day, the last one
\* over before a master that starts at tick 1
EngineWindows ==
    {<<0, LastTick>>, <<0, 5>>, <<4, 9>>, <<3, 17>>, <<14, LastTick>>, <<20, LastTick>>,
     <<0, 0>>}

EngineInit ==
    /\ \E m \in EngineMasters \cup EnginePlain : ledger = {m}
    /\ mirror = {}
    /\ eventMeta = {}
    /\ google = {}
    /\ now = 0
    /\ user = [provider |-> "none", accessToken |-> 0, refreshToken |-> 0,
               expiresAt |-> 0, timezone |-> "UTC"]
    /\ last = BlankLast
    /\ steps = 0
    /\ procs = NoProcs

\* generateRecurringInstances(event, startRange, endRange) of a ledger master
Expand ==
    \E m \in ledger, w \in EngineWindows :
        /\ m.recurrence # <<>>
        /\ last' = [BlankLast EXCEPT !.op = "expand", !.id = m.id, !.event = m,
                                     !.window = w,
                                     !.ret = generateRecurringInstances(m, w[1], w[2])]
        /\ UNCHANGED <<ledger, mirror, eventMeta, user, google, now, steps, procs>>

\* adjustEventTimezone(event, fromTimezone, toTimezone) of a ledger entry, and
\* of its result the other way round
Normalize ==
    \E e \in ledger, fromTimezone \in Zones, toTimezone \in Zones :
        LET there == adjustEventTimezone(e, fromTimezone, toTimezone)
            back == adjustEventTimezone(there, toTimezone, fromTimezone)
        IN  /\ last' = [BlankLast EXCEPT !.op = "normalize", !.id = e.id, !.event = e,
                                         !.zones = <<fromTimezone, toTimezone>>,
                                         !.ret = <<there, back>>]
            /\ UNCHANGED <<ledger, mirror, eventMeta, user, google, now, steps, procs>>

EngineNext ==
    \/ Expand
    \/ Normalize

EngineSpec == EngineInit /\ [][EngineNext]_vars

(***************************************************************************)
(* AvailabilityEngine (src/lib/ai-tools.ts).  Here an instant is a number  *)
(* of minutes since 2024-01-01T00:00Z, and the ledger stands for the       *)
(* events getEvents hands to the search.                                   *)
(***************************************************************************)
MinutesPerDay == 24 * 60

\* the hours of dayStart.setHours(9, 0, 0, 0) and dayEnd.setHours(17, 0, 0, 0)
WorkStartHour == 9
WorkEndHour == 17

\* startOfDay(date)
startOfDay(t) == (t \div MinutesPerDay) * MinutesPerDay

\* areIntervalsOverlapping(left, right): the ends do not count
areIntervalsOverlapping(leftStart, leftEnd, rightStart, rightEnd) ==
    leftStart < rightEnd /\ rightStart < leftEnd

\* the slots between consecutive entries of augmentedEvents, with a test that
\* asks for more than the minimum
FreeGaps_Strict(augmentedEvents, minDurationMinutes) ==
    LET idx == {i \in 1 .. (Len(augmentedEvents) - 1) :
                   augmentedEvents[i + 1].start - augmentedEvents[i].end
                       > minDurationMinutes}
        n == Cardinality(idx)
        nth[k \in 1 .. n] == CHOOSE i \in idx : Cardinality({j \in idx : j < i}) = k - 1
    IN  [k \in 1 .. n |->
            [start |-> augmentedEvents[nth[k]].end,
             end |-> augmentedEvents[nth[k] + 1].start,
             duration |-> augmentedEvents[nth[k] + 1].start - augmentedEvents[nth[k]].end]]

\* the loop over augmentedEvents: a slot from the end of an entry to the start
\* of the next one when they are at least minDurationMinutes apart
FreeGaps(augmentedEvents, minDurationMinutes) ==
    LET idx == {i \in 1 .. (Len(augmentedEvents) - 1) :
                   augmentedEvents[i + 1].start - augmentedEvents[i].end
                       >= minDurationMinutes}
        n == Cardinality(idx)
        nth[k \in 1 .. n] == CHOOSE i \in idx : Cardinality({j \in idx : j < i}) = k - 1
    IN  [k \in 1 .. n |->
            [start |-> augmentedEvents[nth[k]].end,
             end |-> augmentedEvents[nth[k] + 1].start,
             duration |-> augmentedEvents[nth[k] + 1].start - augmentedEvents[nth[k]].end]]

\* one pass of the while loop of findFreeTimeSlots: the slots of currentDay
SlotsOfDay(sortedEvents, currentDay, start, end, minDurationMinutes) ==
    LET dayStart == currentDay + WorkStartHour * 60
        dayEnd == currentDay + WorkEndHour * 60
        effectiveDayStart == IF dayStart < start THEN start ELSE dayStart
        effectiveDayEnd == IF dayEnd > end THEN end ELSE dayEnd
        Overlaps(event) == areIntervalsOverlapping(effectiveDayStart, effectiveDayEnd,
                                                   event.start, event.end)
        dayEvents == SelectSeq(sortedEvents, Overlaps)
        augmentedEvents ==
            <<[start |-> effectiveDayStart, end |-> effectiveDayStart]>>
            \o [i \in DOMAIN dayEvents |->
                    [start |-> dayEvents[i].start, end |-> dayEvents[i].end]]
            \o <<[start |-> effectiveDayEnd, end |-> effectiveDayEnd]>>
    IN  IF dayEnd < start \/ dayStart > end THEN <<>>
        ELSE FreeGaps(augmentedEvents, minDurationMinutes)

\* calendarTools.findFreeTimeSlots: the freeSlots of its result, given the
\* events getEvents returned
findFreeTimeSlots(events, start, end, minDurationMinutes) ==
    LET sortedEvents == SortByStart(events)
        firstDay == startOfDay(start) \div MinutesPerDay
        lastDay == startOfDay(end) \div MinutesPerDay
        days == [i \in 1 .. (lastDay - firstDay + 1) |-> (firstDay + i - 1) * MinutesPerDay]
        One(currentDay) == SlotsOfDay(sortedEvents, currentDay, start, end,
                                      minDurationMinutes)
    IN  FlatMap(One, days)

\* currentSlot advances by 30 minutes; availableSlots is slots.slice(0, 5)
SlotStepMinutes == 30
MaxSlots == 5

\* Date.getHours() of an instant (the server runs in UTC)
getHours(t) == (t % MinutesPerDay) \div 60

\* the values currentSlot takes in the while loop
CandidateSlots(start, end) ==
    IF end <= start THEN <<>>
    ELSE [k \in 1 .. ((end - start + SlotStepMinutes - 1) \div SlotStepMinutes) |->
             start + (k - 1) * SlotStepMinutes]

\* a result that lists every requested participant as unavailable
findOptimalMeetingTime_NoFilter(events, userId, participantIds, durationMinutes, start, end) ==
    LET Free(currentSlot) ==
            /\ getHours(currentSlot) >= WorkStartHour
            /\ getHours(currentSlot) < WorkEndHour
            /\ ~\E i \in DOMAIN events :
                    areIntervalsOverlapping(currentSlot, currentSlot + durationMinutes,
                                            events[i].start, events[i].end)
        free == SelectSeq(CandidateSlots(start, end), Free)
        slots == [k \in DOMAIN free |->
                     [start |-> free[k], end |-> free[k] + durationMinutes]]
    IN  [availableSlots |-> SubSeq(slots, 1, IF Len(slots) < MaxSlots THEN Len(slots)
                                             ELSE MaxSlots),
         participantsChecked |-> <<userId>>,
         participantsUnavailable |-> participantIds]

\* calendarTools.findOptimalMeetingTime, given the events getEvents returned
\* for userId
findOptimalMeetingTime(events, userId, participantIds, durationMinutes, start, end) ==
    LET Free(currentSlot) ==
            /\ getHours(currentSlot) >= WorkStartHour
            /\ getHours(currentSlot) < WorkEndHour
            /\ ~\E i \in DOMAIN events :
                    areIntervalsOverlapping(currentSlot, currentSlot + durationMinutes,
                                            events[i].start, events[i].end)
        free == SelectSeq(CandidateSlots(start, end), Free)
        slots == [k \in DOMAIN free |->
                     [start |-> free[k], end |-> free[k] + durationMinutes]]
        Other(id) == id # userId
    IN  [availableSlots |-> SubSeq(slots, 1, IF Len(slots) < MaxSlots THEN Len(slots)
                                             ELSE MaxSlots),
         participantsChecked |-> <<userId>>,
         participantsUnavailable |-> SelectSeq(participantIds, Other)]

\* the events of a calendar: on the first day, before, inside, across and
\* after the work window
AvailabilityEvents ==
    {[BlankEvent EXCEPT !.id = <<"e", ToString(h[1]), ToString(h[2])>>, !.title = "a",
                        !.start = h[1] * 30, !.end = h[2] * 30] :
        h \in {<<16, 18>>, <<16, 20>>, <<19, 20>>, <<20, 22>>, <<20, 32>>, <<22, 24>>,
               <<30, 34>>, <<32, 36>>}}

AvailabilityCalendars == {S \in SUBSET AvailabilityEvents : Cardinality(S) <= 2}

\* the query windows: the first day, from 09:30, until 10:30, and two days
AvailabilityWindows ==
    {<<0, MinutesPerDay>>, <<570, MinutesPerDay>>, <<0, 630>>, <<0, 2 * MinutesPerDay>>}

MinDurations == {30, 60, 120}

AvailabilityInit ==
    /\ ledger \in AvailabilityCalendars
    /\ mirror = {}
    /\ eventMeta = {}
    /\ google = {}
    /\ now = 0
    /\ user = [provider |-> "none", accessToken |-> 0, refreshToken |-> 0,
               expiresAt |-> 0, timezone |-> "UTC"]
    /\ last = BlankLast
    /\ steps = 0
    /\ procs = NoProcs

FindFreeTimeSlots ==
    \E w \in AvailabilityWindows, minDurationMinutes \in MinDurations :
        \E events \in Enumerations(ledger) :
            /\ last' = [BlankLast EXCEPT !.op = "findFreeTimeSlots", !.window = w,
                                         !.minDurationMinutes = minDurationMinutes,
                                         !.ret = findFreeTimeSlots(events, w[1], w[2],
                                                                   minDurationMinutes)]
            /\ UNCHANGED <<ledger, mirror, eventMeta, user, google, now, steps, procs>>

\* the ids of the users of the deployment; the calendar of the model is the
\* one of the first
UserIds == {"u1", "u2", "u3"}

\* the participant lists a caller asks about, with and without the requester
ParticipantLists ==
    {<<>>, <<"u1">>, <<"u2">>, <<"u1", "u2">>, <<"u2", "u1">>, <<"u2", "u3">>, <<"u2", "u2">>}

FindOptimalMeetingTime ==
    \E w \in AvailabilityWindows, durationMinutes \in MinDurations,
       participantIds \in ParticipantLists :
        \E events \in Enumerations(ledger) :
            LET r == findOptimalMeetingTime(events, "u1", participantIds, durationMinutes,
                                            w[1], w[2])
            IN  /\ last' = [BlankLast EXCEPT
                              !.op = "findOptimalMeetingTime", !.window = w,
                              !.session = "u1", !.args = participantIds,
                              !.minDurationMinutes = durationMinutes,
                              !.ret = r.availableSlots,
                              !.participantsChecked = r.participantsChecked,
                              !.participantsUnavailable = r.participantsUnavailable]
                /\ UNCHANGED <<ledger, mirror, eventMeta, user, google, now, steps, procs>>

AvailabilityNext == FindFreeTimeSlots

AvailabilitySpec == AvailabilityInit /\ [][AvailabilityNext]_vars

\* the meeting search over the same calendars
MeetingNext == FindOptimalMeetingTime

MeetingSpec == AvailabilityInit /\ [][MeetingNext]_vars

(***************************************************************************)
(* Two getEvents calls of one connected user running side by side: each    *)
(* call advances from one await of its provider read to the next           *)
(***************************************************************************)
Callers == {1, 2}

\* the locals of one call of getEvents / getGoogleCalendarEvents
IdleCall ==
    [pc |-> "idle", window |-> <<0, 0>>, expiresAt |-> 0, token |-> 0,
     events |-> <<>>, existingEvents |-> <<>>, i |-> 1, stored |-> FALSE]

\* the windows the two calls ask for
ConcurrentWindows == {<<0, 2>>, <<2, 5>>}

\* what the provider's calendar holds while the two calls run
ConcurrentStores ==
    {S \in SUBSET GoogleUniverse : S # {} /\ \A g, h \in S : g.id = h.id => g = h}

\* what the mirror holds before the two calls
ConcurrentMirrors ==
    {{}} \cup {{convertGoogleEventToCalendarEvent(g)} : g \in GoogleUniverse}

SetCall(p, c) == procs' = [procs EXCEPT !.call[p] = c]

ConcurrentInit ==
    /\ ledger = {}
    /\ eventMeta = {}
    /\ now = 0
    /\ last = BlankLast
    /\ steps = 0
    /\ \E e \in {ExpiresIn, Skew} :
          user = [provider |-> "google", accessToken |-> 1, refreshToken |-> 1,
                  expiresAt |-> e, timezone |-> "UTC"]
    /\ google \in ConcurrentStores
    /\ mirror \in ConcurrentMirrors
    /\ procs = [call |-> [p \in Callers |-> IdleCall], mirror0 |-> mirror]

\* getEvents reads the user record and hands its expiresAt to the provider read
ReadUser ==
    \E p \in Callers, w \in ConcurrentWindows :
        /\ procs.call[p].pc = "idle"
        /\ hasGoogleCalendar(user)
        /\ SetCall(p, [procs.call[p] EXCEPT !.pc = "check", !.window = w,
                                            !.expiresAt = user.expiresAt])
        /\ UNCHANGED <<ledger, mirror, eventMeta, user, google, now, last, steps>>

\* refreshAccessTokenIfNeeded up to its first await: a token that is not
\* expired is read from the user record, otherwise the refresh request is sent
CheckExpiry ==
    \E p \in Callers :
        /\ procs.call[p].pc = "check"
        /\ IF ~isExpired(procs.call[p].expiresAt, now)
           THEN SetCall(p, [procs.call[p] EXCEPT !.pc = "list",
                                                 !.token = user.accessToken])
           ELSE SetCall(p, [procs.call[p] EXCEPT !.pc = "refreshing"])
        /\ UNCHANGED <<ledger, mirror, eventMeta, user, google, now, last, steps>>

\* the token endpoint answers: the new token is written to the user record and
\* returned, or the refresh throws and getGoogleCalendarEvents answers []
RefreshResponse ==
    \E p \in Callers, refreshOk \in BOOLEAN :
        /\ procs.call[p].pc = "refreshing"
        /\ IF refreshOk
           THEN /\ user' = [user EXCEPT !.accessToken = user.accessToken + 1,
                                        !.expiresAt = now + ExpiresIn]
                /\ SetCall(p, [procs.call[p] EXCEPT !.pc = "list",
                                                    !.token = user.accessToken + 1])
           ELSE /\ SetCall(p, [procs.call[p] EXCEPT !.pc = "done"])
                /\ UNCHANGED user
        /\ UNCHANGED <<ledger, mirror, eventMeta, google, now, last, steps>>

\* events.list for the call's window, sent with the call's token
ListEvents ==
    \E p \in Callers, fetchOk \in BOOLEAN :
        \E items \in Enumerations(ListItems(google, procs.call[p].window[1],
                                            procs.call[p].window[2])) :
            /\ procs.call[p].pc = "list"
            /\ IF fetchOk
               THEN SetCall(p, [procs.call[p] EXCEPT
                                  !.pc = "zrange",
                                  !.events = [k \in DOMAIN items |->
                                                convertGoogleEventToCalendarEvent(items[k])]])
               ELSE SetCall(p, [procs.call[p] EXCEPT !.pc = "done"])
            /\ UNCHANGED <<ledger, mirror, eventMeta, user, google, now, last, steps>>

\* storeGoogleEventsInDatabase reads the mirror
ReadMirror ==
    \E p \in Callers :
        \E existingEvents \in ZRange(mirror) :
            /\ procs.call[p].pc = "zrange"
            /\ SetCall(p, [procs.call[p] EXCEPT !.pc = "add", !.i = 1,
                                                !.existingEvents = existingEvents])
            /\ UNCHANGED <<ledger, mirror, eventMeta, user, google, now, last, steps>>

\* one iteration of the loop that adds the fetched events whose id was not in
\* the mirror when it was read
AddNext ==
    \E p \in Callers :
        LET c == procs.call[p]
            existingEventIds == {e.id : e \in Range(c.existingEvents)}
        IN  /\ c.pc = "add"
            /\ IF c.i > Len(c.events)
               THEN /\ SetCall(p, [c EXCEPT !.pc = "sweep", !.i = 1])
                    /\ UNCHANGED mirror
               ELSE /\ mirror' = IF c.events[c.i].id \in existingEventIds
                                 THEN mirror
                                 ELSE ZAdd(mirror, c.events[c.i])
                    /\ SetCall(p, [c EXCEPT !.i = c.i + 1])
            /\ UNCHANGED <<ledger, eventMeta, user, google, now, last, steps>>

\* one iteration of the loop that removes the entries read from the mirror
\* whose id is not in the response
SweepNext ==
    \E p \in Callers :
        LET c == procs.call[p]
            currentEventIds == {e.id : e \in Range(c.events)}
        IN  /\ c.pc = "sweep"
            /\ IF c.i > Len(c.existingEvents)
               THEN /\ SetCall(p, [c EXCEPT !.pc = "done", !.stored = TRUE])
                    /\ UNCHANGED mirror
               ELSE /\ mirror' = IF c.existingEvents[c.i].id \in currentEventIds
                                 THEN mirror
                                 ELSE ZRem(mirror, c.existingEvents[c.i])
                    /\ SetCall(p, [c EXCEPT !.i = c.i + 1])
            /\ UNCHANGED <<ledger, eventMeta, user, google, now, last, steps>>

ConcurrentNext ==
    \/ ReadUser
    \/ CheckExpiry
    \/ RefreshResponse
    \/ ListEvents
    \/ ReadMirror
    \/ AddNext
    \/ SweepNext

ConcurrentSpec == ConcurrentInit /\ [][ConcurrentNext]_vars

\* the same calls under the scheduling the runtime gives them: a step that
\* waits only for the key-value store or for the call's own code is taken in
\* the end; the answers of the token endpoint and of the calendar API
\* (RefreshResponse, ListEvents) may never come, and no step of the code ends
\* the wait for them
PendingSpec ==
    /\ ConcurrentSpec
    /\ WF_vars(ReadUser)
    /\ WF_vars(CheckExpiry)
    /\ WF_vars(ReadMirror)
    /\ WF_vars(AddNext)
    /\ WF_vars(SweepNext)

(***************************************************************************)
(* Backfill sync: POST /api/calendar/sync calls syncWithGoogleCalendar,    *)
(* whose body is described by the specification (push the local-only       *)
(* events of a window with the provider client, then refresh the mirror)   *)
(***************************************************************************)
\* the ledger entries of the window that were never pushed to the provider
LocalOnly(localEvents, startUtc, endUtc) ==
    SelectSeq(localEvents, LAMBDA e : e.source = "local" /\ InRange(e, startUtc, endUtc))

\* createGoogleCalendarEvent for each event in turn; created holds the events
\* the provider client returned
RECURSIVE PushAll(_, _, _, _, _, _)
PushAll(u, store, t, events, refreshOk, fetchOk) ==
    IF events = <<>>
    THEN [user |-> u, google |-> store, calls |-> <<>>, created |-> <<>>]
    ELSE LET g == createGoogleCalendarEvent(u, store, t, Head(events), refreshOk, fetchOk)
             rest == PushAll(g.user, g.google, t, Tail(events), refreshOk, fetchOk)
         IN  [user |-> rest.user, google |-> rest.google,
              calls |-> g.calls \o rest.calls, created |-> g.event \o rest.created]

\* the route answers 400 without a connection; otherwise the sync pushes the
\* local-only events and then reads the window back through
\* getGoogleCalendarEvents, which writes the mirror
SyncWithGoogleCalendar ==
    \E w \in Windows, o \in Outcomes(TRUE), localEvents \in ZRange(ledger) :
        LET timezone == getUserTimezone(user)
            startUtc == zonedTimeToUtc(w[1], timezone)
            endUtc == zonedTimeToUtc(w[2], timezone)
            localOnly == LocalOnly(localEvents, startUtc, endUtc)
            pushed == PushAll(user, google, now, localOnly, o[1], o[2])
        IN  /\ hasGoogleCalendar(user)
            /\ \E items \in Enumerations(ListItems(pushed.google, startUtc, endUtc)) :
                  LET r == getGoogleCalendarEvents(pushed.user, mirror, now, startUtc,
                                                   endUtc, o[1], o[2], items)
                  IN  /\ user' = r.user
                      /\ google' = pushed.google
                      /\ mirror' = r.mirror
                      /\ last' = [BlankLast EXCEPT
                                    !.op = "sync", !.window = <<startUtc, endUtc>>,
                                    !.ret = pushed.created,
                                    !.ok = ~r.failed /\ Len(pushed.created) = Len(localOnly),
                                    !.connected = TRUE,
                                    !.providerFailed = ~(o[1] /\ o[2]),
                                    !.calls = pushed.calls \o r.calls]
            /\ UNCHANGED <<ledger, eventMeta, now, steps, procs>>

SyncNext ==
    \/ CreateEvent
    \/ UpstreamChange
    \/ Tick
    \/ SyncWithGoogleCalendar

SyncSpec == Init /\ [][SyncNext]_vars

(***************************************************************************)
(* Writes to the ledger running side by side with one another and with     *)
(* reads: updateEvent and deleteEvent read the ledger, remove a member and *)
(* add a member, each in an await of its own                               *)
(***************************************************************************)
\* the master and the event without a rule the ledger starts with
RaceMaster ==
    [BlankEvent EXCEPT !.id = <<"m1">>, !.title = "a", !.start = 0, !.end = 1,
                       !.source = "local", !.timezone = "UTC",
                       !.recurrence = <<Rule(1, 0, NoTime)>>]

RacePlain ==
    [BlankEvent EXCEPT !.id = <<"e1">>, !.title = "a", !.start = 1, !.end = 2,
                       !.source = "local", !.timezone = "UTC"]

\* the calls that run: deleteEvent or updateEvent of the master's instance of
\* day 0 or day 1, and updateEvent of the event without a rule
RaceJobs ==
    UNION {{[kind |-> "deleteInstance", input |-> i],
            [kind |-> "updateInstance", input |-> [i EXCEPT !.title = "b"]]} :
              i \in Range(generateRecurringInstances(RaceMaster, 0, MaxTick))}
    \cup {[kind |-> "updateEvent",
           input |-> [RacePlain EXCEPT !.title = "b", !.start = 1 + d, !.end = 2 + d]] :
              d \in {0, TicksPerDay}}

\* what a call decides from the ledger it read: the member it will hand to
\* kv.zrem and the member it will hand to kv.zadd (<<>>: none)
LedgerWrite(job, allEvents) ==
    LET input == [job.input EXCEPT !.timezone = OrStr(job.input.timezone,
                                                      getUserTimezone(user))]
        originalEventId == IF job.kind = "deleteInstance" THEN <<input.id[1]>>
                           ELSE input.originalEventId
        original == FindById(allEvents, originalEventId)
        exceptions == IF original[1].exceptions = <<>> THEN <<>>
                      ELSE original[1].exceptions[1]
        entry == IF job.kind = "deleteInstance"
                 THEN CancelledException(ParseStamp(input.id[2]))
                 ELSE ModifiedException(OrTime(input.exceptionDate, input.start), input)
        newExceptions == IF job.kind = "deleteInstance" THEN Append(exceptions, entry)
                         ELSE UpsertException(exceptions, entry)
        updatedOriginalEvent == [original[1] EXCEPT !.exceptions = <<newExceptions>>]
        oldEvent == FindById(allEvents, input.id)
    IN  IF job.kind # "updateEvent" /\ original # <<>> /\ original[1].recurrence # <<>>
        THEN [removed |-> IF original[1].exceptions = <<>> THEN original
                          ELSE <<updatedOriginalEvent>>,
              updated |-> <<updatedOriginalEvent>>]
        ELSE IF job.kind = "deleteInstance"
        THEN [removed |-> oldEvent, updated |-> <<>>]
        ELSE [removed |-> oldEvent, updated |-> <<input>>]

RaceInit ==
    /\ ledger = {RaceMaster, RacePlain}
    /\ mirror = {}
    /\ eventMeta = {}
    /\ google = {}
    /\ now = 0
    /\ user = [provider |-> "none", accessToken |-> 0, refreshToken |-> 0,
               expiresAt |-> 0, timezone |-> "UTC"]
    /\ last = BlankLast
    /\ steps = 0
    /\ \E j1, j2 \in RaceJobs :
          /\ j1.input.id # j2.input.id
          /\ procs = [call |-> <<[pc |-> "zrange", kind |-> j1.kind, input |-> j1.input,
                                  removed |-> <<>>, updated |-> <<>>],
                                 [pc |-> "zrange", kind |-> j2.kind, input |-> j2.input,
                                  removed |-> <<>>, updated |-> <<>>]>>,
                      mirror0 |-> {}]

\* kv.zrange of the ledger, and the decision taken from it
ReadLedger ==
    \E p \in Callers :
        \E allEvents \in ZRange(ledger) :
            LET c == procs.call[p]
                w == LedgerWrite(c, allEvents)
            IN  /\ c.pc = "zrange"
                /\ SetCall(p, [c EXCEPT !.pc = "zrem", !.removed = w.removed,
                                        !.updated = w.updated])
                /\ UNCHANGED <<ledger, mirror, eventMeta, user, google, now, last, steps>>

\* kv.zrem of the member decided on
RemoveMember ==
    \E p \in Callers :
        LET c == procs.call[p]
        IN  /\ c.pc = "zrem"
            /\ ledger' = IF c.removed = <<>> THEN ledger ELSE ZRem(ledger, c.removed[1])
            /\ SetCall(p, [c EXCEPT !.pc = "zadd"])
            /\ UNCHANGED <<mirror, eventMeta, user, google, now, last, steps>>

\* kv.zadd of the member decided on; the call returns
AddMember ==
    \E p \in Callers :
        LET c == procs.call[p]
        IN  /\ c.pc = "zadd"
            /\ ledger' = IF c.updated = <<>> THEN ledger ELSE ZAdd(ledger, c.updated[1])
            /\ SetCall(p, [c EXCEPT !.pc = "done"])
            /\ UNCHANGED <<mirror, eventMeta, user, google, now, last, steps>>

\* a getEvents call of the same user at any moment
ReadDuring ==
    \E w \in Windows, localEvents \in ZRange(ledger) :
        /\ getEvents(w[1], w[2], TRUE, TRUE, <<>>, localEvents)
        /\ UNCHANGED <<steps, procs>>

RaceNext ==
    \/ ReadLedger
    \/ RemoveMember
    \/ AddMember
    \/ ReadDuring

RaceSpec == RaceInit /\ [][RaceNext]_vars

(***************************************************************************)
(* AI tool endpoint: POST /api/ai/tool hands the session's user id, the    *)
(* tool name and the argument list of the request to executeAIToolCall     *)
(***************************************************************************)
\* the keys of calendarTools
Tools ==
    {"findOptimalMeetingTime", "getCalendarAnalytics", "findFreeTimeSlots",
     "suggestRescheduling"}

\* the argument lists a request may carry: user ids and other strings
ArgLists ==
    {<<>>} \cup {<<a>> : a \in UserIds \cup {"x"}}
    \cup {<<a, b>> : a, b \in UserIds \cup {"x"}}

\* a dispatch that calls the tool with the list as the request gave it
executeAIToolCall_AsGiven(userId, tool, args) ==
    IF tool \notin Tools THEN [threw |-> TRUE, args |-> <<>>]
    ELSE [threw |-> FALSE, args |-> args]

\* executeAIToolCall: the list the tool is called with; threw for a tool that
\* does not exist
executeAIToolCall(userId, tool, args) ==
    IF tool \notin Tools THEN [threw |-> TRUE, args |-> <<>>]
    ELSE [threw |-> FALSE,
          args |-> IF args = <<>> \/ args[1] # userId THEN <<userId>> \o args ELSE args]

\* the route: 401 without a session, 400 without a tool name, 500 when the
\* dispatch throws; ok tells whether a tool was called
ExecuteAIToolCall ==
    \E session \in UserIds \cup {""}, tool \in Tools \cup {"", "unknownTool"},
       args \in ArgLists :
        LET r == executeAIToolCall(session, tool, args)
            called == session # "" /\ tool # "" /\ ~r.threw
        IN  /\ last' = [BlankLast EXCEPT
                          !.op = "executeAIToolCall", !.session = session,
                          !.tool = tool, !.request = args,
                          !.args = IF called THEN r.args ELSE <<>>,
                          !.ok = called,
                          !.threw = session # "" /\ tool # "" /\ r.threw]
            /\ UNCHANGED <<ledger, mirror, eventMeta, user, google, now, steps, procs>>

ToolNext == ExecuteAIToolCall

\* the endpoint is reached with an empty calendar
ToolInit == AvailabilityInit /\ ledger = {}

ToolSpec == ToolInit /\ [][ToolNext]_vars

(***************************************************************************)
(* Properties                                                              *)
(***************************************************************************)
IsRead == last.op = "getEvents"

\* the window of the last read, in storage time
WindowStart == last.window[1]
WindowEnd == last.window[2]

\* t is an occurrence of master m's series, counted from its start
SeriesOccurrence(m, t) ==
    LET r == m.recurrence[1]
        period == r.interval * TicksPerDay
    IN  /\ t >= m.start
        /\ (t - m.start) % period = 0
        /\ (r.count # 0 => (t - m.start) \div period < r.count)
        /\ (r.until # NoTime => t <= r.until)

\* m carries a cancelled exception on the day of t
CancelledOn(m, t) ==
    /\ m.exceptions # <<>>
    /\ \E i \in DOMAIN m.exceptions[1] :
          /\ m.exceptions[1][i].status = "cancelled"
          /\ DayOf(m.exceptions[1][i].date) = DayOf(t)

\* C1: the list getEvents returns is in non-decreasing order of start,
\* whatever order the provider events and the ledger entries came in.
C1_SortedByStart ==
    IsRead => \A i, j \in DOMAIN last.ret : i < j => last.ret[i].start <= last.ret[j].start

\* a read returned a provider event after a local one that starts earlier,
\* though the provider events come first in the concatenation
C1_Witness ==
    /\ IsRead
    /\ \E i, j \in DOMAIN last.ret :
          /\ i < j
          /\ last.ret[i].source # "google"
          /\ last.ret[j].source = "google"
          /\ last.ret[i].start < last.ret[j].start

\* C2: getEvents never returns two entries with the same id.
C2_NoDuplicateIds ==
    IsRead => \A i, j \in DOMAIN last.ret : last.ret[i].id = last.ret[j].id => i = j

\* C3: when the provider call of a read fails, the read returns the mirrored
\* external events of the window.
C3_FallbackToMirror ==
    (IsRead /\ last.providerFailed) =>
        \A m \in mirror :
            (m.end > WindowStart /\ m.start < WindowEnd) =>
                \E i \in DOMAIN last.ret : last.ret[i] = m

\* C4: a provider failure during getEvents does not fail the read, and the
\* read still returns every local non-recurring event that overlaps the
\* window and every instance of a local master whose occurrence lies in it.
C4_LocalSurvivesOutage ==
    (IsRead /\ last.providerFailed) =>
        /\ ~last.threw
        /\ \A e \in ledger :
              (e.recurrence = <<>> /\ e.start < WindowEnd /\ WindowStart < e.end) =>
                  \E i \in DOMAIN last.ret : last.ret[i].id = e.id
        /\ \A m \in ledger : \A t \in WindowStart .. WindowEnd :
              (m.recurrence # <<>> /\ SeriesOccurrence(m, t) /\ ~CancelledOn(m, t)) =>
                  \E i \in DOMAIN last.ret :
                      /\ last.ret[i].id = m.id \o <<FormatStamp(t)>>
                      /\ last.ret[i].originalEventId = m.id

\* a read whose provider call failed returned a plain local event that began
\* before the window together with an instance of a local master
C4_Witness ==
    /\ IsRead
    /\ last.providerFailed
    /\ \E i, j \in DOMAIN last.ret :
          /\ last.ret[i].recurrence = <<>>
          /\ last.ret[i].source # "google"
          /\ last.ret[i].start < WindowStart
          /\ WindowStart < last.ret[i].end
          /\ last.ret[j].isRecurringInstance

\* C5: a provider call uses a token that is not expired when the call is
\* made; when the stored credential was expired (within the skew) at the
\* check, the call uses another token than the stored one, and that token and
\* its expiry are in the user record when the operation returns.
C5_NoStaleToken ==
    [][\A i \in DOMAIN last'.calls :
          LET c == last'.calls[i]
          IN  /\ c.token = user'.accessToken
              /\ now < user'.expiresAt
              /\ IF isExpired(user.expiresAt, now)
                 THEN c.token # user.accessToken /\ user'.expiresAt # user.expiresAt
                 ELSE user' = user]_vars

\* a delete reached the provider with the token of a refresh
C5_Witness ==
    /\ last.op = "deleteEvent"
    /\ last.calls # <<>>
    /\ last.calls[1].kind = "delete"
    /\ last.calls[1].token = 2
    /\ user.accessToken = 2

\* C6: when the external write of createEvent or updateEvent fails, the event
\* is in the ledger with source local.
C6_FallbackIsLocal ==
    (last.op \in {"createEvent", "updateEvent"} /\ last.providerFailed) =>
        \E e \in ledger : e.id = last.id /\ e.source = "local"

\* the last segment of an id
LastSegment(id) == id[Len(id)]

\* an id without its last segment
MasterPart(id) == SubSeq(id, 1, Len(id) - 1)

\* the id names an occurrence of a recurring master M of the ledger S
IsInstanceIdOf(S, id) ==
    /\ Len(id) >= 2
    /\ ParseStamp(LastSegment(id)) # NoTime
    /\ \E M \in S : M.id = MasterPart(id) /\ M.recurrence # <<>>

\* C7: deleteEvent of the instance id '<M.id>_<yyyyMMdd>' of a recurring
\* master M, without deleteAllInstances, leaves a master with M's id that
\* carries a cancelled exception for that day, leaves every other entry, and
\* a following getEvents does not return the instance.
C7_InstanceDeleteCancels ==
    [][(/\ last'.op = "deleteEvent"
        /\ ~last'.deleteAllInstances
        /\ IsInstanceIdOf(ledger, last'.id)) =>
          /\ \E M \in ledger' :
                /\ M.id = MasterPart(last'.id)
                /\ CancelledOn(M, ParseStamp(LastSegment(last'.id)))
          /\ \A e \in ledger : e.id # MasterPart(last'.id) => e \in ledger'
          /\ Cardinality(ledger') = Cardinality(ledger)
          /\ \A all \in ZRange(ledger') :
                \A x \in Range(LocalEvents(all, 0, MaxTick, getUserTimezone(user))) :
                    x.id # last'.id]_vars

\* C8: updateEvent of an instance of a ledger master records a modified
\* exception on the master under the day of the occurrence the instance id
\* names, also when the edit moves the start to another day.
C8_KeyedByOriginalDate ==
    [][(/\ last'.op = "updateEvent"
        /\ last'.event.isRecurringInstance
        /\ last'.event.originalEventId = MasterPart(last'.id)
        /\ IsInstanceIdOf(ledger, last'.id)) =>
          \E M \in ledger' :
              /\ M.id = last'.event.originalEventId
              /\ M.exceptions # <<>>
              /\ \E i \in DOMAIN M.exceptions[1] :
                    /\ M.exceptions[1][i].status = "modified"
                    /\ DayOf(M.exceptions[1][i].date)
                          = DayOf(ParseStamp(LastSegment(last'.id)))]_vars

\* C9: the exception list of every ledger entry holds at most one entry per
\* occurrence day.
C9_OneExceptionPerDate ==
    \A e \in ledger :
        e.exceptions # <<>> =>
            \A i, j \in DOMAIN e.exceptions[1] :
                DayOf(e.exceptions[1][i].date) = DayOf(e.exceptions[1][j].date) => i = j

\* C10: no ledger entry is a materialized instance.
C10_NoStoredInstance ==
    \A e \in ledger : ~e.isRecurringInstance

\* the exception entry master m carries for the day of t, <<>> when none
ExceptionOn(m, t) == FindException(m, t)

\* m carries a modified exception on the day of t
ModifiedOn(m, t) ==
    /\ ExceptionOn(m, t) # <<>>
    /\ ExceptionOn(m, t)[1].status = "modified"

\* the occurrences of m's rule counted from its start and cut by count and
\* until, whatever exceptions m carries
CountedSeries(m) ==
    LET r == m.recurrence[1]
        unbounded == {t \in 0 .. LastTick + TicksPerDay :
                         /\ t >= m.start
                         /\ t % TicksPerDay = m.start % TicksPerDay
                         /\ IF r.frequency = "weekly"
                            THEN /\ ((DayOf(t) \div 7) - (DayOf(m.start) \div 7))
                                        % r.interval = 0
                                 /\ IF r.byDay = {}
                                    THEN DayOf(t) % 7 = DayOf(m.start) % 7
                                    ELSE \E day \in r.byDay : dayMap(day) = DayOf(t) % 7
                            ELSE (DayOf(t) - DayOf(m.start)) % r.interval = 0}
    IN  {t \in unbounded :
            /\ (r.count # 0 => Cardinality({u \in unbounded : u < t}) < r.count)
            /\ (r.until # NoTime => t <= r.until)}

\* the instances of the last expansion with the id of the occurrence at t
InstancesAt(m, t) ==
    {i \in DOMAIN last.ret : last.ret[i].id = m.id \o <<FormatStamp(t)>>}

IsExpansion == last.op = "expand"

\* C11: deleteEvent of the id of a recurring ledger master, with
\* deleteAllInstances, leaves no ledger entry with that id, and a read of any
\* window that follows returns no instance of that master.
C11_MasterDeleteRemovesSeries ==
    [][(/\ last'.op = "deleteEvent"
        /\ last'.deleteAllInstances
        /\ \E M \in ledger : M.id = last'.id /\ M.recurrence # <<>>) =>
          /\ \A e \in ledger' : e.id # last'.id
          /\ \A all \in ZRange(ledger') : \A w \in Windows :
                \A x \in Range(LocalEvents(all, w[1], w[2], getUserTimezone(user))) :
                    x.originalEventId # last'.id]_vars

\* C12: for a master with a cancelled and a modified exception on different
\* days, the expansion over a window holds no instance of the cancelled
\* occurrence, one instance of every other occurrence of the series cut by
\* count (so that the cancelled one has used up its share of count), and for
\* the modified occurrence an instance with the payload's fields, the
\* master's where the payload leaves one unset, tagged with exceptionDate.
C12_ExceptionOverlay ==
    (IsExpansion /\ last.event.exceptions # <<>>) =>
        LET m == last.event
            T == {t \in CountedSeries(m) : WindowStart <= t /\ t <= WindowEnd}
        IN  /\ \A t \in T : CancelledOn(m, t) => InstancesAt(m, t) = {}
            /\ \A t \in T : ~CancelledOn(m, t) => Cardinality(InstancesAt(m, t)) = 1
            /\ \A i \in DOMAIN last.ret : \E t \in T : i \in InstancesAt(m, t)
            /\ \A t \in T : ModifiedOn(m, t) =>
                  \A i \in InstancesAt(m, t) :
                      LET x == last.ret[i]
                          p == ExceptionOn(m, t)[1].modifiedEvent[1]
                      IN  /\ x.exceptionDate = ExceptionOn(m, t)[1].date
                          /\ x.title = OrStr(p.title, m.title)
                          /\ x.start = OrTime(p.start, t)
                          /\ x.end = OrTime(p.end, t + (m.end - m.start))
                          /\ x.allDay = (p.allDay \/ m.allDay)

\* the start instants of a list of events
Starts(s) == [i \in DOMAIN s |-> s[i].start]

\* C13: for a rule with count = n the expansion over a window holds the
\* occurrences among the first n of the series, counted from the master's
\* start, that lie in the window, wherever the window begins; a weekly rule on
\* Monday and Wednesday with count 4 that starts on a Monday yields the first
\* two Monday/Wednesday pairs, and a window after the n-th occurrence yields
\* nothing.
C13_CountFromSeriesStart ==
    (/\ IsExpansion
     /\ last.event.exceptions = <<>>
     /\ last.event.recurrence[1].count # 0) =>
        LET m == last.event
            firstN == CountedSeries(m)
        IN  /\ Range(Starts(last.ret))
                  = {t \in firstN : WindowStart <= t /\ t <= WindowEnd}
            /\ Len(last.ret) = Cardinality(Range(Starts(last.ret)))
            /\ (/\ m.recurrence[1] = WeeklyRule(1, 4, NoTime, {"MO", "WE"})
                /\ m.start = 0
                /\ last.window = <<0, LastTick>>) =>
                  Starts(last.ret)
                      = <<0, 2 * TicksPerDay, 7 * TicksPerDay, 9 * TicksPerDay>>
            /\ (\A t \in firstN : t < WindowStart) => last.ret = <<>>

\* a rule with count was expanded over a window that begins after the
\* master: the window holds counted occurrences and later days of the series
\* that count cuts off
C13_Witness ==
    /\ IsExpansion
    /\ last.event.exceptions = <<>>
    /\ last.event.recurrence[1] = Rule(1, 3, NoTime)
    /\ last.event.start < WindowStart
    /\ WindowStart + 2 * TicksPerDay <= WindowEnd
    /\ Len(last.ret) = 1

\* C14: two expansions of the same master over windows that overlap hold the
\* same instance, field by field, for every occurrence that lies in both
\* windows, and two expansions over the same window hold the same list.
C14_SameInstancesInOverlap ==
    [][(last.op = "expand" /\ last'.op = "expand" /\ last'.event = last.event) =>
          /\ \A t \in CountedSeries(last.event) :
                (/\ last.window[1] <= t /\ t <= last.window[2]
                 /\ last'.window[1] <= t /\ t <= last'.window[2]) =>
                    {x \in Range(last.ret) : x.id = last.event.id \o <<FormatStamp(t)>>}
                      = {x \in Range(last'.ret) : x.id = last.event.id \o <<FormatStamp(t)>>}
          /\ (last'.window = last.window => last'.ret = last.ret)]_vars

\* an expansion returned a modified instance and a plain one of occurrences
\* that lie in another window of the model as well
C14_Witness ==
    /\ IsExpansion
    /\ \E w \in EngineWindows \ {last.window} :
          \E i, j \in DOMAIN last.ret :
              /\ last.ret[i].exceptionDate # NoTime
              /\ last.ret[j].exceptionDate = NoTime
              /\ \A t \in CountedSeries(last.event) :
                    (i \in InstancesAt(last.event, t) \/ j \in InstancesAt(last.event, t))
                        => (w[1] <= t /\ t <= w[2])

IsNormalization == last.op = "normalize"

\* C15: for an event that is not all-day and two zones A and B, the
\* conversion from A to B followed by the conversion from B to A gives back
\* the event's start and end.
C15_RoundTrip ==
    (IsNormalization /\ ~last.event.allDay) =>
        /\ last.ret[2].start = last.event.start
        /\ last.ret[2].end = last.event.end

\* C16: the conversion returns the event as it is when the two zones are
\* equal or the event is all-day, and in every other case an event whose
\* timezone is the target zone.
C16_NoOpOrTargetZone ==
    IsNormalization =>
        IF last.zones[1] = last.zones[2] \/ last.event.allDay
        THEN last.ret[1] = last.event
        ELSE last.ret[1].timezone = last.zones[2]

\* an event that is not all-day and carries another zone than the target was
\* converted between two different zones
C16_Witness ==
    /\ IsNormalization
    /\ last.zones[1] # last.zones[2]
    /\ ~last.event.allDay
    /\ last.event.timezone # last.zones[2]
    /\ last.ret[1].start # last.event.start

IsSlotSearch == last.op = "findFreeTimeSlots"

\* the work window of the day that begins at instant day
WorkStart(day) == day + WorkStartHour * 60
WorkEnd(day) == day + WorkEndHour * 60

\* the days the window of the last search touches
SearchDays ==
    {d * MinutesPerDay : d \in (WindowStart \div MinutesPerDay) .. (WindowEnd \div MinutesPerDay)}

\* event e is the only event of the calendar on the day, and lies strictly
\* inside the work window
OnlyEventInside(e, day) ==
    /\ WorkStart(day) < e.start /\ e.start < e.end /\ e.end < WorkEnd(day)
    /\ \A f \in ledger \ {e} : f.end <= day \/ f.start >= day + MinutesPerDay

\* the slots of the last search that begin on the day
SlotsOn(day) ==
    {x \in Range(last.ret) : day <= x.start /\ x.start < day + MinutesPerDay}

AbsentId(id) ==
    /\ \A e \in ledger : e.id # id /\ <<id[1]>> # e.id /\ MasterPart(id) # e.id
    /\ ~(IsGoogleId(id) /\ \E g \in google : g.id = id[2])

\* C18: deleteEvent of an id that neither the ledger nor the provider holds
\* returns false and does not throw, with and without a provider connection,
\* and leaves the ledger, the mirror and the metadata sidecar as they were.
C18_AbsentDeleteReturnsFalse ==
    [][(last'.op = "deleteEvent" /\ AbsentId(last'.id)) =>
          /\ ~last'.ok
          /\ ~last'.threw
          /\ ledger' = ledger
          /\ mirror' = mirror
          /\ eventMeta' = eventMeta]_vars

\* C19: createEvent and updateEvent of an event whose rule has both count
\* and until, or an interval below 1, end with an error before they touch the
\* ledger or the provider, so that every master of the ledger has an interval
\* of at least 1 and at most one of count and until.
C19_RejectsMalformedRule ==
    [][/\ (/\ last'.op \in {"createEvent", "updateEvent"}
           /\ last'.event.recurrence # <<>>
           /\ ~WellFormed(last'.event.recurrence[1])) =>
              (last'.threw /\ ledger' = ledger /\ last'.calls = <<>>)
       /\ \A e \in ledger' : e.recurrence # <<>> => WellFormed(e.recurrence[1])]_vars

\* C20: when the expansion of one ledger master throws, the read still
\* returns what every other ledger entry and the provider yield for the
\* window.
C20_SiblingsSurviveBadMaster ==
    (IsRead /\ \E m \in ledger : ExpansionThrows(m)) =>
        /\ ~last.threw
        /\ \A e \in ledger :
              ~ExpansionThrows(e) =>
                  \A x \in Range(LocalOf(e, WindowStart, WindowEnd, getUserTimezone(user))) :
                      \E i \in DOMAIN last.ret : last.ret[i] = x
        /\ \A g \in ListItems(google, WindowStart, WindowEnd) :
              \E i \in DOMAIN last.ret : last.ret[i].id = <<"google", g.id>>

\* C21: when the token endpoint refuses the refresh during the provider call
\* of getEvents, createEvent, updateEvent or deleteEvent, the operation ends
\* with an error for its caller and not with a list, a stored event or true.
C21_RefreshFailureSurfaces ==
    [][(/\ last'.op \in {"getEvents", "createEvent", "updateEvent", "deleteEvent"}
        /\ last'.connected
        /\ last'.providerFailed
        /\ last'.calls = <<>>
        /\ isExpired(user.expiresAt, now)
        /\ (last'.op \in {"updateEvent", "deleteEvent"} => IsGoogleId(last'.id))) =>
          last'.threw]_vars

\* C22: never are two refresh requests of the user in flight together, and a
\* call about to use its token on the provider holds the token that is stored
\* for the user (not one that another call's refresh has replaced).
C22_SingleRefreshInFlight ==
    /\ \A p, q \in DOMAIN procs.call :
          (procs.call[p].pc = "refreshing" /\ procs.call[q].pc = "refreshing") => p = q
    /\ \A p \in DOMAIN procs.call :
          procs.call[p].pc = "list" => procs.call[p].token = user.accessToken

\* C23: once two side-by-side write-throughs have both finished, the mirror
\* is what running storeGoogleEventsInDatabase for the one response and then
\* for the other would have left, in one of the two orders.
C23_MirrorWritesSerializable ==
    (\A p \in DOMAIN procs.call : procs.call[p].pc = "done" /\ procs.call[p].stored) =>
        \/ DOMAIN procs.call = {}
        \/ mirror = storeGoogleEventsInDatabase(
                        storeGoogleEventsInDatabase(procs.mirror0, procs.call[1].events),
                        procs.call[2].events)
        \/ mirror = storeGoogleEventsInDatabase(
                        storeGoogleEventsInDatabase(procs.mirror0, procs.call[2].events),
                        procs.call[1].events)

\* C24: after a backfill sync during which the token endpoint and the calendar
\* API answered every request, each local-only event of the sync's window has
\* a counterpart on the provider and in the mirror.
C24_BackfillPushesLocalOnly ==
    (last.op = "sync" /\ ~last.providerFailed) =>
        \A e \in ledger :
            (/\ e.source = "local"
             /\ InRange(e, WindowStart, WindowEnd)) =>
                /\ \E g \in google :
                      g.summary = e.title /\ g.start = e.start /\ g.end = e.end
                /\ \E m \in mirror :
                      m.title = e.title /\ m.start = e.start /\ m.end = e.end

\* C25: after a getEvents whose provider fetch succeeded, every event of the
\* provider's answer for the window has exactly one mirror entry with its id,
\* and that entry is the version just fetched.
C25_MirrorHoldsFetchedVersion ==
    (last.op = "getEvents" /\ last.connected /\ ~last.providerFailed) =>
        \A g \in ListItems(google, WindowStart, WindowEnd) :
            /\ Cardinality({m \in mirror : m.id = <<"google", g.id>>}) = 1
            /\ convertGoogleEventToCalendarEvent(g) \in mirror

\* C26: a getEvents whose provider fetch succeeded removes from the mirror no
\* entry whose id still exists on the provider, whatever its window.
C26_SweepKeepsUpstreamIds ==
    [][(last'.op = "getEvents" /\ last'.connected /\ ~last'.providerFailed) =>
          \A m \in mirror :
              (\E g \in google : m.id = <<"google", g.id>>) =>
                  \E n \in mirror' : n.id = m.id]_vars

\* C27: no instance that the expansion of a master returns carries the
\* master's recurrence rule or its exceptions list.
C27_InstancesCarryNoRule ==
    IsExpansion =>
        \A i \in DOMAIN last.ret :
            last.ret[i].isRecurringInstance =>
                last.ret[i].recurrence = <<>> /\ last.ret[i].exceptions = <<>>

\* C28: every event that getEvents returns from the ledger and that is not
\* all-day, instances of recurring masters included, has the user's zone in
\* its timezone field.
C28_LocalResultsInUserZone ==
    (IsRead /\ ~last.threw) =>
        \A i \in DOMAIN last.ret :
            (last.ret[i].source # "google" /\ ~last.ret[i].allDay) =>
                last.ret[i].timezone = getUserTimezone(user)

\* C29: getEvents returns a ledger event without a rule exactly when the event
\* begins before the window's end and ends after the window's start; an event
\* that only touches the window at one of its ends is not returned.
C29_HalfOpenOverlap ==
    (IsRead /\ ~last.threw) =>
        \A e \in ledger :
            e.recurrence = <<>> =>
                ((\E i \in DOMAIN last.ret :
                      last.ret[i].id = e.id /\ last.ret[i].source # "google")
                 <=> (e.start < WindowEnd /\ WindowStart < e.end))

\* C30: every instance an expansion returns begins inside the window, from
\* its start to its end inclusive, also where a modified exception supplies
\* the instance's start and end; a window that ends before the master begins
\* yields no instance.
C30_InstancesInsideWindow ==
    IsExpansion =>
        /\ \A i \in DOMAIN last.ret :
              WindowStart <= last.ret[i].start /\ last.ret[i].start <= WindowEnd
        /\ WindowEnd < last.event.start => last.ret = <<>>

\* C31: the ledger holds at most one entry per event id (for the ids callers
\* supply; a generated id is a fresh uuid), and after an updateEvent that
\* took the local path the entry with the event's id is the updated event.
C31_OneEntryPerId ==
    /\ \A e, f \in ledger : (e.id = f.id /\ e.id # GeneratedId) => e = f
    /\ (last.op = "updateEvent" /\ ~last.event.isRecurringInstance
          /\ last.ret = <<last.event>> /\ last.id # GeneratedId) =>
            {e \in ledger : e.id = last.id} = {last.event}

\* C32: a getEvents call that has started its provider read comes to the end
\* of that read, also when the provider never answers.
C32_ReadReturns ==
    \A p \in Callers : (procs.call[p].pc = "check") ~> (procs.call[p].pc = "done")

\* C33: when a connected user creates an event that has categories or a
\* recurrence rule and the provider answers, the sidecar afterwards holds
\* that metadata under the id of a provider event.
C33_MetadataInSidecar ==
    [][(/\ last'.op = "createEvent"
        /\ last'.connected
        /\ NeedsMeta(last'.event)) =>
          \E m \in eventMeta' :
              /\ IsGoogleId(m.id)
              /\ m.categories = last'.event.categories
              /\ m.recurrence = last'.event.recurrence]_vars

\* C39: the request body that createGoogleCalendarEvent and
\* updateGoogleCalendarEvent send for an event carries the event's title,
\* start and end.
C39_RequestCarriesFields ==
    (/\ last.op \in {"createEvent", "updateEvent"}
     /\ \E i \in DOMAIN last.calls : last.calls[i].kind \in {"create", "update"}) =>
        /\ RequestBody(last.event).summary = last.event.title
        /\ RequestBody(last.event).start = last.event.start
        /\ RequestBody(last.event).end = last.event.end

\* C34: findOptimalMeetingTime reports the requester alone as checked and the
\* other requested participants as not checked: the two lists share no one,
\* together they name the requester and every requested participant, and at
\* most 5 slots are returned.
C34_ParticipantsPartition ==
    last.op = "findOptimalMeetingTime" =>
        /\ last.participantsChecked = <<last.session>>
        /\ Range(last.participantsChecked) \cap Range(last.participantsUnavailable) = {}
        /\ Range(last.participantsChecked) \cup Range(last.participantsUnavailable)
              = {last.session} \cup Range(last.args)
        /\ Len(last.ret) <= MaxSlots

\* a search whose list of participants names the requester and someone else,
\* over a window with more than 5 free candidates
C34_Witness ==
    /\ last.op = "findOptimalMeetingTime"
    /\ last.session \in Range(last.args)
    /\ Range(last.args) # {last.session}
    /\ Len(last.ret) = MaxSlots
    /\ Len(last.participantsUnavailable) = 1

\* C35: no slot that findFreeTimeSlots returns overlaps an event of the list
\* it was given.
C35_SlotsAvoidEvents ==
    IsSlotSearch =>
        \A i \in DOMAIN last.ret : \A e \in ledger :
            ~areIntervalsOverlapping(last.ret[i].start, last.ret[i].end, e.start, e.end)

\* C36: when two calls that each cancel or edit a different instance of one
\* master have both returned, the ledger holds one entry for the master and
\* that entry has an exception for each of the two instances.
C36_BothExceptionsKept ==
    (/\ \A p \in DOMAIN procs.call : procs.call[p].pc = "done"
     /\ \A p \in DOMAIN procs.call : procs.call[p].kind # "updateEvent"
     /\ DOMAIN procs.call # {}) =>
        /\ Cardinality({e \in ledger : e.id = RaceMaster.id}) = 1
        /\ \A e \in ledger : \A p \in DOMAIN procs.call :
              e.id = RaceMaster.id =>
                  /\ e.exceptions # <<>>
                  /\ \E k \in DOMAIN e.exceptions[1] :
                        DayOf(e.exceptions[1][k].date)
                            = DayOf(procs.call[p].input.start)

\* C37: a getEvents whose window holds an event in its stored and in its
\* edited version returns an entry with the event's id, also while the
\* updateEvent that makes the edit is under way.
C37_ReadSeesUpdatedEvent ==
    IsRead =>
        \A p \in DOMAIN procs.call :
            (/\ procs.call[p].kind = "updateEvent"
             /\ InRange(RacePlain, WindowStart, WindowEnd)
             /\ InRange(procs.call[p].input, WindowStart, WindowEnd)) =>
                \E i \in DOMAIN last.ret : last.ret[i].id = procs.call[p].input.id

\* C38: a getEvents leaves the ledger and the sidecar as they were; it leaves
\* the mirror as it was when its provider call failed; and it changes the
\* user record only by a refresh of an expired token, which replaces the
\* access token and its expiry and nothing else.
C38_ReadWritesOnlyMirrorAndToken ==
    [][last'.op = "getEvents" =>
          /\ ledger' = ledger
          /\ eventMeta' = eventMeta
          /\ google' = google
          /\ (last'.providerFailed \/ ~last'.connected) => mirror' = mirror
          /\ user' # user =>
                /\ isExpired(user.expiresAt, now)
                /\ user' = [user EXCEPT !.accessToken = user'.accessToken,
                                         !.expiresAt = user'.expiresAt]]_vars

\* a read whose provider call failed while the mirror held an event
C38_Witness ==
    /\ last.op = "getEvents"
    /\ last.connected
    /\ last.providerFailed
    /\ last.calls # <<>>
    /\ mirror # {}

\* C40: every tool the endpoint calls is called with the session's user id as
\* its first argument, whatever list the request carried.
C40_ToolActsForSessionUser ==
    (last.op = "executeAIToolCall" /\ last.ok) =>
        /\ last.args # <<>>
        /\ last.args[1] = last.session

\* a tool was called for a request whose list begins with another user's id
C40_Witness ==
    /\ last.op = "executeAIToolCall"
    /\ last.ok
    /\ last.request # <<>>
    /\ last.request[1] \in UserIds \ {last.session}
    /\ last.args = <<last.session>> \o last.request

====
